---- MODULE Spec2Model ----
(***************************************************************************)
(* The transaction simulation core (SimulationHandler) of the Ethereum     *)
(* development node: initialize / runCall / createAccessList over an       *)
(* ephemeral, checkpointed copy of the chain's state trie.                 *)
(*                                                                         *)
(* Addresses, storage slots and storage values are integers.  A world      *)
(* state stands for the trie root that commits to it (tries are content    *)
(* addressed), and the key/value store under the tries is `leveldb`.       *)
(***************************************************************************)
EXTENDS Integers, Sequences, FiniteSets, TLC

VARIABLES
  request,   \* what the RPC layer passes: tx, overrides, block, common, vm
  leveldb,   \* the key/value store shared by the chain's trie and its copies
  chain,     \* the parent blockchain: its trie and its head block number
  pre,       \* history: leveldb and chain as they were before construction
  sim,       \* the SimulationHandler's private fields and its locals
  outcome,   \* what the public method called last returned or threw
  prior,     \* history: the result of an earlier createAccessList, if any
  peer       \* a second handler over the same blockchain, while it is suspended

vars == <<request, leveldb, chain, pre, sim, outcome, prior, peer>>

----------------------------------------------------------------------------
(* Bounds of the model *)

MaxSlot == 2
MaxGasPrice == 1
MaxDepartures == 3
MaxCheckpoints == 3
MaxBytes == 3
MaxByteLength == 3

----------------------------------------------------------------------------
(* Accounts of the test chain *)

Acct == [from |-> 11, to |-> 12, addr |-> 13, console |-> 14, contract |-> 20, created |-> 30]
Precompiles == {1, 2}
Accounts ==
  Precompiles \cup {Acct.from, Acct.to, Acct.addr, Acct.console, Acct.contract, Acct.created}
Slots == 1..MaxSlot

NoAddress == 0
NoValue == -1

InspectorCode == <<"6", "0">>
ReverterCode == <<"f", "d">>

KECCAK256_NULL == <<"keccak", <<>>>>
Keccak(code) == <<"keccak", code>>

Range(f) == {f[i] : i \in DOMAIN f}

Genesis ==
  [acct |-> [a \in Accounts |->
       IF a = Acct.from THEN [nonce |-> 3, balance |-> 50000, codeHash |-> KECCAK256_NULL]
       ELSE IF a = Acct.to THEN [nonce |-> 0, balance |-> 100, codeHash |-> KECCAK256_NULL]
       ELSE IF a = Acct.contract THEN [nonce |-> 1, balance |-> 0, codeHash |-> Keccak(InspectorCode)]
       ELSE [nonce |-> 0, balance |-> 0, codeHash |-> KECCAK256_NULL]],
   stor |-> [a \in Accounts |-> [k \in Slots |->
       IF a = Acct.contract /\ k = 2 THEN 7 ELSE 0]]]

\* the state after one more block, in which getStoredBalance(to, 1) was mined
Block1State ==
  [Genesis EXCEPT !.acct[Acct.from].nonce = 4,
                  !.acct[Acct.from].balance = 40000,
                  !.stor[Acct.contract][1] = Acct.to]

Blocks == << [number |-> 0, stateRoot |-> Genesis],
             [number |-> 1, stateRoot |-> Block1State] >>

InitialDb == [tries |-> {Genesis, Block1State},
              kv |-> {<<Keccak(InspectorCode), InspectorCode>>}]

InitialChain == [trie |-> [root |-> Block1State, checkpoints |-> <<>>], head |-> 1]

----------------------------------------------------------------------------
(* Chain rules *)

IsActivatedEIP(common, eip) == common = "berlin" /\ eip \in {2929, 2930}

----------------------------------------------------------------------------
(* GanacheTrie: copy, _copy, setContext *)

TrieCopyWithCheckpoints(trie, includeCheckpoints) ==
  [root |-> trie.root, checkpoints |-> trie.checkpoints]

\* lines 23-29 of trie.ts
TrieCopyInner(trie, includeCheckpoints) ==
  [root |-> trie.root,
   checkpoints |-> IF includeCheckpoints /\ Len(trie.checkpoints) > 0
                   THEN trie.checkpoints ELSE <<>>]

\* db.copy() wraps the same leveldb: the copy reads and writes `leveldb` itself
TrieCopy(trie, includeCheckpoints) == TrieCopyInner(trie, includeCheckpoints)

RootKept(trie, stateRoot) == trie

\* lines 15-17
SetContext(trie, stateRoot) == [trie EXCEPT !.root = stateRoot]

----------------------------------------------------------------------------
(* The state manager over the trie: an environment e = [sim, db] is the    *)
(* handler's fields together with the leveldb its trie writes to.          *)

EmptyMap == [addrs |-> {}, slots |-> {}]

MergeMap(m, n) == [addrs |-> m.addrs \cup n.addrs, slots |-> m.slots \cup n.slots]

Depth(e) == Len(e.sim.trie.checkpoints)

World(e) == e.sim.trie.root

\* a trie write: into the scratch of the open checkpoint, or, when there is
\* none, through to leveldb
WriteWorld(e, w) ==
  IF Depth(e) = 0
  THEN [e EXCEPT !.sim.trie.root = w, !.db.tries = @ \cup {w}]
  ELSE [e EXCEPT !.sim.trie.root = w]

DbPut(e, key, val) ==
  IF Depth(e) = 0
  THEN [e EXCEPT !.db.kv = @ \cup {<<key, val>>}]
  ELSE [e EXCEPT !.sim.trie.checkpoints[Depth(e)].kv = @ \cup {<<key, val>>}]

Checkpoint(e) ==
  [e EXCEPT !.sim.trie.checkpoints = Append(@, [root |-> World(e), kv |-> {}]),
            !.sim.accessed = Append(@, EmptyMap)]

Revert(e) ==
  LET d == Depth(e)
      cp == e.sim.trie.checkpoints[d]
      top == e.sim.accessed[Len(e.sim.accessed)]
      e1 == [e EXCEPT !.sim.trie.root = cp.root,
                      !.sim.trie.checkpoints = SubSeq(@, 1, d - 1),
                      !.sim.accessed = SubSeq(@, 1, Len(@) - 1),
                      !.sim.reverted = MergeMap(@, top)]
  IN IF d = 1 THEN [e1 EXCEPT !.db.tries = @ \cup {cp.root}] ELSE e1

Commit(e) ==
  LET d == Depth(e)
      cp == e.sim.trie.checkpoints[d]
      n == Len(e.sim.accessed)
      top == e.sim.accessed[n]
      e1 == [e EXCEPT !.sim.trie.checkpoints = SubSeq(@, 1, d - 1),
                      !.sim.accessed = [SubSeq(@, 1, n - 1) EXCEPT ![n - 1] = MergeMap(@, top)]]
  IN IF d = 1
     THEN [e1 EXCEPT !.db.tries = @ \cup {World(e)}, !.db.kv = @ \cup cp.kv]
     ELSE [e1 EXCEPT !.sim.trie.checkpoints[d - 1].kv = @ \cup cp.kv]

GetAccount(e, a) == World(e).acct[a]

PutAccount(e, a, account) == WriteWorld(e, [World(e) EXCEPT !.acct[a] = account])

PutContractStorage(e, a, k, v) == WriteWorld(e, [World(e) EXCEPT !.stor[a][k] = v])

ClearContractStorage(e, a) ==
  WriteWorld(e, [World(e) EXCEPT !.stor[a] = [k \in Slots |-> 0]])

AddWarmedAddress(e, a) ==
  [e EXCEPT !.sim.accessed[Len(e.sim.accessed)].addrs = @ \cup {a}]

AddWarmedStorage(e, a, k) ==
  [e EXCEPT !.sim.accessed[Len(e.sim.accessed)] =
      [addrs |-> @.addrs \cup {a}, slots |-> @.slots \cup {<<a, k>>}]]

IsWarmedAddress(e, a) == \E i \in DOMAIN e.sim.accessed : a \in e.sim.accessed[i].addrs

IsWarmedStorage(e, a, k) == \E i \in DOMAIN e.sim.accessed : <<a, k>> \in e.sim.accessed[i].slots

\* the code stored under an account's codeHash, looked up through the
\* checkpoints' scratch and then leveldb; nothing stored reads as empty code
GetContractCode(e, a) ==
  LET h == GetAccount(e, a).codeHash
      stored == e.db.kv \cup UNION {e.sim.trie.checkpoints[i].kv : i \in DOMAIN e.sim.trie.checkpoints}
      hits == {p \in stored : p[1] = h}
  IN IF h = KECCAK256_NULL \/ hits = {} THEN <<>> ELSE (CHOOSE p \in hits : TRUE)[2]

----------------------------------------------------------------------------
(* Quantity and Data: hex text is a sequence of characters *)

HexDigits == <<"0", "1", "2", "3", "4", "5", "6", "7", "8", "9",
               "a", "b", "c", "d", "e", "f">>

DigitValue(c) == (CHOOSE i \in DOMAIN HexDigits : HexDigits[i] = c) - 1

HasHexPrefix(text) == Len(text) >= 2 /\ text[1] = "0" /\ text[2] = "x"

RECURSIVE DigitsToInt(_, _)
DigitsToInt(text, acc) ==
  IF text = <<>> THEN acc
  ELSE DigitsToInt(Tail(text), acc * 16 + DigitValue(Head(text)))

\* the digits from the first one that is not zero
Significant(digits) ==
  LET nonzero == {i \in DOMAIN digits : digits[i] # "0"}
  IN IF nonzero = {} THEN <<>>
     ELSE SubSeq(digits, CHOOSE i \in nonzero : \A j \in nonzero : i <= j, Len(digits))

\* Quantity.toBuffer / Data.toBuffer of "0x..." text, read as a number
HexToInt(text) == DigitsToInt(Significant(SubSeq(text, 3, Len(text))), 0)

RECURSIVE IntToDigits(_)
IntToDigits(n) ==
  IF n < 16 THEN <<HexDigits[n + 1]>>
  ELSE Append(IntToDigits(n \div 16), HexDigits[(n % 16) + 1])

\* Quantity.toString: "0x" and the shortest hex of the number
QuantityToString(n) == <<"0", "x">> \o IntToDigits(n)

\* a 0x-prefixed text of the given length whose last digit is d
HexText(len, d) == <<"0", "x">> \o [i \in 1..(len - 3) |-> "0"] \o <<HexDigits[d + 1]>>

----------------------------------------------------------------------------
(* Intrinsic gas and access lists *)

TRANSACTION_GAS == 21000
TRANSACTION_CREATION == 32000
TX_DATA_ZERO == 4
ACCESS_LIST_ADDRESS_COST == 2400
ACCESS_LIST_STORAGE_KEY_COST == 1900

TxDataNonZero(common) == IF common = "berlin" THEN 16 ELSE 68

RECURSIVE DataGas(_, _)
DataGas(data, common) ==
  IF data = <<>> THEN 0
  ELSE (IF Head(data) = 0 THEN TX_DATA_ZERO ELSE TxDataNonZero(common))
       + DataGas(Tail(data), common)

CalculateIntrinsicGas(data, hasToAddress, common) ==
  TRANSACTION_GAS
  + (IF hasToAddress THEN 0 ELSE TRANSACTION_CREATION)
  + DataGas(data, common)

\* AccessLists.getAccessListData(accessList).dataFeeEIP2930: a cost per entry
\* and a cost per storage key of every entry
DataFeeEIP2930(accessList) ==
  LET keys == UNION { {<<i, j>> : j \in DOMAIN accessList[i].storageKeys} : i \in DOMAIN accessList }
  IN Len(accessList) * ACCESS_LIST_ADDRESS_COST + Cardinality(keys) * ACCESS_LIST_STORAGE_KEY_COST

AccessListAsSet(accessList) ==
  {<<accessList[i].address, Range(accessList[i].storageKeys)>> : i \in DOMAIN accessList}

SameSequence(a, b) == a = b

AreAccessListsSame(a, b) == AccessListAsSet(a) = AccessListAsSet(b)

MAX_ITERATIONS == 1000

\* every address the model can name, ascending: the chain's accounts below
\* FreshBase, and above it one address per iteration for a contract that
\* touches an address it has not touched before
FreshBase == 100
AddressOrder == [i \in 1..(FreshBase + MAX_ITERATIONS) |-> i]
SlotOrder == [i \in 1..MaxSlot |-> i]

FoldedAccessed(e) ==
  LET maps == Range(e.sim.accessed) \cup {e.sim.reverted}
  IN [addrs |-> UNION {m.addrs : m \in maps}, slots |-> UNION {m.slots : m \in maps}]

GenerateAccessList(e, addressesRemoved, addressesOnlyStorage) ==
  LET folded == FoldedAccessed(e)
      keys(a) == SelectSeq(SlotOrder, LAMBDA k : <<a, k>> \in folded.slots)
      kept == SelectSeq(AddressOrder, LAMBDA a :
                 /\ a \in folded.addrs
                 /\ a \notin Range(addressesRemoved)
                 /\ ~(a \in Range(addressesOnlyStorage) /\ keys(a) = <<>>))
  IN [i \in DOMAIN kept |-> [address |-> kept[i], storageKeys |-> keys(kept[i])]]

----------------------------------------------------------------------------
(* SimulationHandler: constructor and initialize *)

NoCallResult == [hasGasUsed |-> FALSE, gasUsed |-> 0, exceptionError |-> "",
                 returnValue |-> 0, programCounter |-> 0]

NoRunCallOpts == [caller |-> NoAddress, data |-> <<>>, gasPrice |-> 0, gasLimit |-> 0,
                  to |-> NoAddress, value |-> 0, block |-> 0]

NewSim ==
  [pc |-> "constructed",
   hasVm |-> FALSE,
   common |-> "",
   trie |-> [root |-> Genesis, checkpoints |-> <<>>],
   accessed |-> <<EmptyMap>>,
   reverted |-> EmptyMap,
   accessListExclusions |-> <<>>,
   addressesOnlyStorage |-> <<>>,
   intrinsicGas |-> 0,
   initializationError |-> "",
   hasRunCallOpts |-> FALSE,
   runCallOpts |-> NoRunCallOpts,
   stepListener |-> FALSE,
   events |-> [before |-> 0, step |-> 0, after |-> 0],
   vmRuns |-> 0,
   previousAccessList |-> <<>>,
   iterations |-> 0,
   callResult |-> NoCallResult,
   accessList |-> <<>>,
   firstGenerated |-> <<>>,
   transactionContext |-> "context",
   delivered |-> <<>>]

NothingEmitted(e) == e

\* lines 236-240
EmitBefore(e) == [e EXCEPT !.sim.events.before = @ + 1]

EmitAfter(e) ==
  [e EXCEPT !.sim.events.after = @ + 1,
            !.sim.delivered = Append(@, [kind |-> "after", step |-> 0,
                                         context |-> e.sim.transactionContext])]

\* whether the step is a call to the console.log address
MaybeGetLogs(op) == op.op = "CONSOLELOG"

StepListenerStepFirst(e, op, i) ==
  LET step == [kind |-> "step", step |-> i, context |-> e.sim.transactionContext]
      log == [kind |-> "console.log", step |-> i, context |-> e.sim.transactionContext]
  IN [e EXCEPT !.sim.events.step = @ + 1,
               !.sim.delivered = IF MaybeGetLogs(op) THEN @ \o <<step, log>> ELSE Append(@, step)]

\* lines 223-233: the listener of the vm's "step" event, for the i-th step
StepListener(e, op, i) ==
  LET step == [kind |-> "step", step |-> i, context |-> e.sim.transactionContext]
      log == [kind |-> "console.log", step |-> i, context |-> e.sim.transactionContext]
  IN [e EXCEPT !.sim.events.step = @ + 1,
               !.sim.delivered = IF MaybeGetLogs(op) THEN @ \o <<log, step>> ELSE Append(@, step)]

\* the vm emits "step" for each opcode it executes, in order
RECURSIVE DeliverSteps(_, _, _)
DeliverSteps(e, ops, i) ==
  IF i > Len(ops) \/ ~e.sim.stepListener THEN e
  ELSE DeliverSteps(StepListener(e, ops[i], i), ops, i + 1)

SetupStepEventEmits(e) == [e EXCEPT !.sim.stepListener = TRUE]

PrecompileList == SelectSeq(AddressOrder, LAMBDA a : a \in Precompiles)

RECURSIVE WarmAll(_, _)
WarmAll(e, addrs) ==
  IF addrs = <<>> THEN e ELSE WarmAll(AddWarmedAddress(e, Head(addrs)), Tail(addrs))

WarmPrecompiles(e) == WarmAll(e, PrecompileList)

WarmDefaults(e, caller, to) ==
  LET e1 == AddWarmedAddress(WarmPrecompiles(e), caller)
  IN IF to # NoAddress THEN AddWarmedAddress(e1, to) ELSE e1

RECURSIVE WarmSlots(_, _, _)
WarmSlots(e, a, storageKeys) ==
  IF storageKeys = <<>> THEN e
  ELSE WarmSlots(AddWarmedStorage(e, a, Head(storageKeys)), a, Tail(storageKeys))

RECURSIVE WarmAccessList(_, _)
WarmAccessList(e, accessList) ==
  IF accessList = <<>> THEN e
  ELSE WarmAccessList(
         WarmSlots(AddWarmedAddress(e, Head(accessList).address),
                   Head(accessList).address, Head(accessList).storageKeys),
         Tail(accessList))

ValidatesNothing(slot, value, fieldName) == ""

ValidatesDataFirst(slot, value, fieldName) ==
  IF value.kind # "string"
  THEN fieldName \o " override data not valid. Received: " \o value.kind
  ELSE IF slot # <<>> /\ HasHexPrefix(slot) /\ Len(slot) # 66
  THEN fieldName \o " override slot must be a 64 character hex string. Received "
       \o ToString(Len(slot) - 2) \o " character string."
  ELSE IF value.text # <<>> /\ HasHexPrefix(value.text) /\ Len(value.text) # 66
  THEN fieldName \o " override data must be a 64 character hex string. Received "
       \o ToString(Len(value.text) - 2) \o " character string."
  ELSE ""

ValidateStorageOverride(slot, value, fieldName) ==
  IF slot # <<>> /\ HasHexPrefix(slot) /\ Len(slot) # 66
  THEN fieldName \o " override slot must be a 64 character hex string. Received "
       \o ToString(Len(slot) - 2) \o " character string."
  ELSE IF value.kind # "string"
  THEN fieldName \o " override data not valid. Received: " \o value.kind
  ELSE IF value.text # <<>> /\ HasHexPrefix(value.text) /\ Len(value.text) # 66
  THEN fieldName \o " override data must be a 64 character hex string. Received "
       \o ToString(Len(value.text) - 2) \o " character string."
  ELSE ""

RECURSIVE ApplyStorageOverrideClearingFirst(_, _, _, _, _)
ApplyStorageOverrideClearingFirst(e, a, slots, isState, clearedState) ==
  IF slots = <<>> THEN e
  ELSE LET slot == Head(slots).slot
           value == Head(slots).value
           e1 == IF isState /\ ~clearedState THEN ClearContractStorage(e, a) ELSE e
           err == ValidateStorageOverride(slot, value, IF isState THEN "State" ELSE "StateDiff")
       IN IF err # "" THEN [e1 EXCEPT !.thrown = err]
          ELSE ApplyStorageOverrideClearingFirst(
                 PutContractStorage(e1, a, HexToInt(slot), HexToInt(value.text)),
                 a, Tail(slots), isState, TRUE)

\* lines 412-437: the slots of a state (isState) or stateDiff override
RECURSIVE ApplyStorageOverride(_, _, _, _, _)
ApplyStorageOverride(e, a, slots, isState, clearedState) ==
  IF slots = <<>> THEN e
  ELSE LET slot == Head(slots).slot
           value == Head(slots).value
           err == ValidateStorageOverride(slot, value, IF isState THEN "State" ELSE "StateDiff")
           e1 == IF isState /\ ~clearedState THEN ClearContractStorage(e, a) ELSE e
       IN IF err # "" THEN [e EXCEPT !.thrown = err]
          ELSE ApplyStorageOverride(
                 PutContractStorage(e1, a, HexToInt(slot), HexToInt(value.text)),
                 a, Tail(slots), isState, TRUE)

ApplyAccountOverrideWithoutPut(e, o) ==
  IF ~(o.nonce.has \/ o.balance.has \/ o.code.has) THEN e
  ELSE LET account == GetAccount(e, o.address)
           a1 == IF o.nonce.has
                 THEN [account EXCEPT !.nonce = IF o.nonce.text = <<>> THEN 0 ELSE HexToInt(o.nonce.text)]
                 ELSE account
           a2 == IF o.balance.has
                 THEN [a1 EXCEPT !.balance = IF o.balance.text = <<>> THEN 0 ELSE HexToInt(o.balance.text)]
                 ELSE a1
           codeBuffer == IF o.code.text = <<>> THEN <<>> ELSE SubSeq(o.code.text, 3, Len(o.code.text))
           codeHash == IF Len(codeBuffer) > 0 THEN Keccak(codeBuffer) ELSE KECCAK256_NULL
           a3 == IF o.code.has THEN [a2 EXCEPT !.codeHash = codeHash] ELSE a2
       IN PutAccount(e, o.address, a3)

ApplyAccountOverride(e, o) ==
  IF ~(o.nonce.has \/ o.balance.has \/ o.code.has) THEN e
  ELSE LET account == GetAccount(e, o.address)
           a1 == IF o.nonce.has
                 THEN [account EXCEPT !.nonce = IF o.nonce.text = <<>> THEN 0 ELSE HexToInt(o.nonce.text)]
                 ELSE account
           a2 == IF o.balance.has
                 THEN [a1 EXCEPT !.balance = IF o.balance.text = <<>> THEN 0 ELSE HexToInt(o.balance.text)]
                 ELSE a1
           codeBuffer == IF o.code.text = <<>> THEN <<>> ELSE SubSeq(o.code.text, 3, Len(o.code.text))
           codeHash == IF Len(codeBuffer) > 0 THEN Keccak(codeBuffer) ELSE KECCAK256_NULL
           a3 == IF o.code.has THEN [a2 EXCEPT !.codeHash = codeHash] ELSE a2
           e1 == IF o.code.has THEN DbPut(e, codeHash, codeBuffer) ELSE e
       IN PutAccount(e1, o.address, a3)

ApplyOneOverrideStateFirst(e, o) ==
  LET e1 == ApplyAccountOverride(e, o)
  IN IF o.state.has THEN ApplyStorageOverride(e1, o.address, o.state.slots, TRUE, FALSE)
     ELSE IF o.stateDiff.has
     THEN ApplyStorageOverride(e1, o.address, o.stateDiff.slots, FALSE, FALSE)
     ELSE e1

ApplyOneOverride(e, o) ==
  LET e1 == ApplyAccountOverride(e, o)
  IN IF ~(o.state.has \/ o.stateDiff.has) THEN e1
     ELSE IF o.state.has
     THEN IF o.stateDiff.has
          THEN [e1 EXCEPT !.thrown = "both state and stateDiff overrides specified"]
          ELSE ApplyStorageOverride(e1, o.address, o.state.slots, TRUE, FALSE)
     ELSE ApplyStorageOverride(e1, o.address, o.stateDiff.slots, FALSE, FALSE)

RECURSIVE ApplySimulationOverrides(_, _)
ApplySimulationOverrides(e, overrides) ==
  IF overrides = <<>> \/ e.thrown # "" THEN e
  ELSE ApplySimulationOverrides(ApplyOneOverride(e, Head(overrides)), Tail(overrides))

SenderUntouched(e, caller, gasLimit, gasPrice) == e

\* lines 197-203: the sender's nonce and balance, updated before the call
DebitSender(e, caller, gasLimit, gasPrice) ==
  LET fromAccount == GetAccount(e, caller)
      txCost == gasLimit * gasPrice
  IN PutAccount(e, caller, [fromAccount EXCEPT !.nonce = @ + 1, !.balance = @ - txCost])

GasLeftUnchecked(gasLeft) == TRUE

\* line 174
HasGasLeft(gasLeft) == gasLeft >= 0

NothingExcluded(caller) == <<>>

\* lines 178-183: the caller, then every precompile
AccessListExclusions(caller) == <<caller>> \o PrecompileList

WarmsDefaultsAlways(common) == TRUE

\* line 177
WarmsDefaults(common) == IsActivatedEIP(common, 2929)

NoneOnlyStorage(to) == <<>>

\* lines 180-182
AddressesOnlyStorage(to) == IF to # NoAddress THEN <<to>> ELSE <<>>

RunCallOptsWithTxGas(req, caller, to, gasLeft) ==
  [caller |-> caller, data |-> req.tx.data,
   gasPrice |-> req.tx.gasPrice, gasLimit |-> req.tx.gas, to |-> to,
   value |-> IF req.tx.value = NoValue THEN 0 ELSE req.tx.value,
   block |-> req.tx.block]

\* lines 205-216
RunCallOpts(req, caller, to, gasLeft) ==
  [caller |-> caller, data |-> req.tx.data,
   gasPrice |-> req.tx.gasPrice, gasLimit |-> gasLeft, to |-> to,
   value |-> IF req.tx.value = NoValue THEN 0 ELSE req.tx.value,
   block |-> req.tx.block]

InitializeRestDebitingFirst(e, req, caller, to, gasLeft) ==
  IF HasGasLeft(gasLeft)
  THEN LET e1 == SetupStepEventEmits(e)
           e2 == IF WarmsDefaults(req.common)
                 THEN [WarmDefaults(e1, caller, to) EXCEPT
                         !.sim.accessListExclusions = AccessListExclusions(caller),
                         !.sim.addressesOnlyStorage = AddressesOnlyStorage(to)]
                 ELSE e1
           e3 == DebitSender(e2, caller, req.tx.gas, req.tx.gasPrice)
           e4 == IF req.hasOverrides THEN ApplySimulationOverrides(e3, req.overrides) ELSE e3
           e5 == IF IsActivatedEIP(req.common, 2930) /\ req.tx.hasAccessList
                 THEN WarmAccessList(e4, req.tx.accessList) ELSE e4
       IN IF e4.thrown # "" THEN e4
          ELSE [e5 EXCEPT !.sim.hasRunCallOpts = TRUE,
                          !.sim.runCallOpts = RunCallOpts(req, caller, to, gasLeft)]
  ELSE [e EXCEPT !.sim.initializationError = "OUT_OF_GAS"]

\* lines 174-219: what initialize does once `before` is emitted
InitializeRest(e, req, caller, to, gasLeft) ==
  IF HasGasLeft(gasLeft)
  THEN LET e1 == SetupStepEventEmits(e)
           e2 == IF WarmsDefaults(req.common)
                 THEN [WarmDefaults(e1, caller, to) EXCEPT
                         !.sim.accessListExclusions = AccessListExclusions(caller),
                         !.sim.addressesOnlyStorage = AddressesOnlyStorage(to)]
                 ELSE e1
           e3 == IF req.hasOverrides THEN ApplySimulationOverrides(e2, req.overrides) ELSE e2
           e4 == IF IsActivatedEIP(req.common, 2930) /\ req.tx.hasAccessList
                 THEN WarmAccessList(e3, req.tx.accessList) ELSE e3
           e5 == DebitSender(e4, caller, req.tx.gas, req.tx.gasPrice)
       IN IF e3.thrown # "" THEN e3
          ELSE [e5 EXCEPT !.sim.hasRunCallOpts = TRUE,
                          !.sim.runCallOpts = RunCallOpts(req, caller, to, gasLeft)]
  ELSE [e EXCEPT !.sim.initializationError = "OUT_OF_GAS"]

InitializeOverlayUncheckpointed(e, chainTrie, req) ==
  [e EXCEPT !.sim.trie = SetContext(TrieCopy(chainTrie, FALSE), Blocks[req.block].stateRoot),
            !.sim.hasVm = TRUE, !.sim.common = req.common,
            !.sim.accessed = <<EmptyMap>>, !.sim.reverted = EmptyMap]

\* lines 141-157: the copied trie, the vm over it, and the checkpoint
InitializeOverlay(e, chainTrie, req) ==
  LET stateTrie == SetContext(TrieCopy(chainTrie, FALSE), Blocks[req.block].stateRoot)
      e1 == [e EXCEPT !.sim.trie = stateTrie, !.sim.hasVm = TRUE, !.sim.common = req.common,
                      !.sim.accessed = <<EmptyMap>>, !.sim.reverted = EmptyMap]
  IN Checkpoint(e1)

InitializeEmittingLate(e, chainTrie, req) ==
  LET caller == req.tx.from
      e1 == InitializeOverlay(e, chainTrie, req)
      hasToAddress == req.tx.to # NoAddress
      intrinsicGas == CalculateIntrinsicGas(req.tx.data, hasToAddress, req.common)
      gasLeft == req.tx.gas - intrinsicGas
      e2 == [e1 EXCEPT !.sim.intrinsicGas = intrinsicGas]
  IN InitializeRest(IF HasGasLeft(gasLeft) THEN EmitBefore(e2) ELSE e2,
                    req, caller, req.tx.to, gasLeft)

\* lines 132-220
Initialize(e, chainTrie, req) ==
  LET caller == req.tx.from
      e1 == InitializeOverlay(e, chainTrie, req)
      hasToAddress == req.tx.to # NoAddress
      intrinsicGas == CalculateIntrinsicGas(req.tx.data, hasToAddress, req.common)
      gasLeft == req.tx.gas - intrinsicGas
      e2 == EmitBefore([e1 EXCEPT !.sim.intrinsicGas = intrinsicGas])
  IN InitializeRest(e2, req, caller, req.tx.to, gasLeft)

----------------------------------------------------------------------------
(* The EVM the handler drives: vm.runCall over the state manager.  The     *)
(* Inspector contract dispatches on the first byte of the call data.       *)

COLD_ACCOUNT_ACCESS_COST == 2600
COLD_SLOAD_COST == 2100
WARM_STORAGE_READ_COST == 100
BALANCE_COST == 700
SLOAD_COST == 800
SSTORE_COST == 5000

Op(name, a, k, v) == [op |-> name, a |-> a, k |-> k, v |-> v]

Arg(data, i) == IF i <= Len(data) THEN data[i] ELSE 0

Program(code, data) ==
  IF code = ReverterCode THEN <<Op("REVERT", 0, 0, 0)>>
  ELSE IF code # InspectorCode \/ data = <<>> THEN <<>>
  ELSE IF data[1] = 1 THEN <<Op("SLOAD", 0, Arg(data, 2), 0)>>
  ELSE IF data[1] = 2 THEN <<Op("SSTORE", 0, Arg(data, 2), Arg(data, 3))>>
  ELSE IF data[1] = 3 THEN <<Op("BALANCE", Arg(data, 2), 0, 0)>>
  ELSE IF data[1] = 5 THEN <<Op("SLOAD", 0, Arg(data, 3), 0),
                             Op("SSTORE", 0, Arg(data, 3), Arg(data, 2)),
                             Op("BALANCEREG", 0, 0, 0)>>
  ELSE IF data[1] = 7 THEN <<Op("CONSOLELOG", Acct.console, 0, 0), Op("REVERT", 0, 0, 0)>>
  ELSE <<>>

AccessAddressCost(e, a) ==
  IF IsActivatedEIP(e.sim.common, 2929)
  THEN IF IsWarmedAddress(e, a) THEN WARM_STORAGE_READ_COST ELSE COLD_ACCOUNT_ACCESS_COST
  ELSE BALANCE_COST

AccessAddress(e, a) ==
  IF IsActivatedEIP(e.sim.common, 2929) THEN AddWarmedAddress(e, a) ELSE e

AccessStorageCost(e, a, k) ==
  IF IsActivatedEIP(e.sim.common, 2929)
  THEN IF IsWarmedStorage(e, a, k) THEN 0 ELSE COLD_SLOAD_COST
  ELSE 0

AccessStorage(e, a, k) ==
  IF IsActivatedEIP(e.sim.common, 2929) THEN AddWarmedStorage(e, a, k) ELSE e

\* one opcode of the contract at `self`; m = [e, gasUsed, err, steps, reg]
ExecOp(m, op, self, gasLimit) ==
  LET target == IF op.op = "BALANCEREG" THEN (IF m.reg = 0 THEN self ELSE m.reg) ELSE op.a
      cost == IF op.op \in {"BALANCE", "BALANCEREG", "CONSOLELOG"}
              THEN AccessAddressCost(m.e, target)
              ELSE IF op.op = "SLOAD"
              THEN (IF IsActivatedEIP(m.e.sim.common, 2929)
                    THEN (IF IsWarmedStorage(m.e, self, op.k)
                          THEN WARM_STORAGE_READ_COST ELSE COLD_SLOAD_COST)
                    ELSE SLOAD_COST)
              ELSE IF op.op = "SSTORE" THEN SSTORE_COST + AccessStorageCost(m.e, self, op.k)
              ELSE 0
      m1 == [m EXCEPT !.steps = @ + 1]
  IN IF op.op = "REVERT" THEN [m1 EXCEPT !.err = "revert"]
     ELSE IF m.gasUsed + cost > gasLimit
     THEN [m1 EXCEPT !.err = "out of gas", !.gasUsed = gasLimit]
     ELSE IF op.op \in {"BALANCE", "BALANCEREG", "CONSOLELOG"}
     THEN [m1 EXCEPT !.e = AccessAddress(m.e, target), !.gasUsed = @ + cost]
     ELSE IF op.op = "SLOAD"
     THEN [m1 EXCEPT !.e = AccessStorage(m.e, self, op.k), !.gasUsed = @ + cost,
                     !.reg = World(m.e).stor[self][op.k]]
     ELSE [m1 EXCEPT !.e = PutContractStorage(AccessStorage(m.e, self, op.k), self, op.k, op.v),
                     !.gasUsed = @ + cost]

RECURSIVE RunOps(_, _, _, _)
RunOps(m, ops, self, gasLimit) ==
  IF ops = <<>> \/ m.err # "" THEN m
  ELSE RunOps(ExecOp(m, Head(ops), self, gasLimit), Tail(ops), self, gasLimit)

\* the message's value, moved from the caller to the callee
TransferValue(m, opts) ==
  LET sender == GetAccount(m.e, opts.caller)
      toAddr == IF opts.to = NoAddress THEN Acct.created ELSE opts.to
      e1 == PutAccount(m.e, opts.caller, [sender EXCEPT !.balance = @ - opts.value])
      e2 == PutAccount(e1, toAddr, [GetAccount(e1, toAddr) EXCEPT !.balance = @ + opts.value])
  IN IF opts.value = 0 THEN m
     ELSE IF sender.balance < opts.value THEN [m EXCEPT !.err = "insufficient balance"]
     ELSE [m EXCEPT !.e = e2]

\* vm.runCall(opts): returns [e, result, steps]
VmRunCall(e, opts) ==
  LET e1 == IF opts.to = NoAddress /\ IsActivatedEIP(e.sim.common, 2929)
            THEN AddWarmedAddress(e, Acct.created) ELSE e
      e2 == Checkpoint(e1)
      m0 == TransferValue([e |-> e2, gasUsed |-> 0, err |-> "", steps |-> 0, reg |-> 0], opts)
      ops == IF opts.to = NoAddress THEN <<>>
             ELSE Program(GetContractCode(e2, opts.to), opts.data)
      m == RunOps(m0, ops, opts.to, opts.gasLimit)
      e3 == IF m.err = "" THEN Commit(m.e) ELSE Revert(m.e)
      e4 == DeliverSteps([e3 EXCEPT !.sim.delivered = <<>>], SubSeq(ops, 1, m.steps), 1)
  IN [e |-> [e4 EXCEPT !.sim.vmRuns = @ + 1],
      result |-> [hasGasUsed |-> TRUE, gasUsed |-> m.gasUsed, exceptionError |-> m.err,
                  returnValue |-> m.reg, programCounter |-> m.steps]]

----------------------------------------------------------------------------
(* SimulationHandler.runCall and createAccessList *)

RunCallNeverThrowing(e) ==
  LET r == VmRunCall(e, e.sim.runCallOpts)
  IN [e |-> EmitAfter(r.e), callResult |-> r.result, thrown |-> ""]

\* lines 262-284: [e, callResult, thrown]; thrown is "", "CallError" or "Error"
RunCall(e) ==
  IF e.sim.initializationError # ""
  THEN [e |-> e, thrown |-> "CallError",
        callResult |-> [NoCallResult EXCEPT !.exceptionError = e.sim.initializationError]]
  ELSE IF e.sim.hasRunCallOpts
  THEN LET r == VmRunCall(e, e.sim.runCallOpts)
           e1 == EmitAfter(r.e)
       IN [e |-> e1, callResult |-> r.result,
           thrown |-> IF r.result.exceptionError # "" THEN "CallError" ELSE ""]
  ELSE [e |-> e, thrown |-> "Error", callResult |-> NoCallResult]

----------------------------------------------------------------------------
(* The requests the RPC layer makes *)

NoField == [has |-> FALSE, text |-> <<>>]
Field(text) == [has |-> TRUE, text |-> text]
NoSlots == [has |-> FALSE, slots |-> <<>>]
SlotsOf(slots) == [has |-> TRUE, slots |-> slots]
StringValue(text) == [kind |-> "string", text |-> text]
NullValue == [kind |-> "null", text |-> <<>>]
UndefinedValue == [kind |-> "undefined", text |-> <<>>]

NoOverride(a) == [address |-> a, nonce |-> NoField, balance |-> NoField, code |-> NoField,
                  state |-> NoSlots, stateDiff |-> NoSlots]

GoodSlot == [slot |-> HexText(66, 1), value |-> StringValue(HexText(66, 9))]
ShortSlot == [slot |-> HexText(65, 2), value |-> StringValue(HexText(66, 8))]
ShortData == [slot |-> HexText(66, 1), value |-> StringValue(HexText(4, 9))]
LongData == [slot |-> HexText(66, 2), value |-> StringValue(HexText(67, 9))]
NullData == [slot |-> HexText(66, 1), value |-> NullValue]
UndefinedData == [slot |-> HexText(66, 2), value |-> UndefinedValue]
ShortSlotNullData == [slot |-> HexText(64, 2), value |-> NullValue]
SecondSlot == [slot |-> HexText(66, 2), value |-> StringValue(HexText(66, 8))]

OverrideChoices ==
  { <<>>,
    << [NoOverride(Acct.from) EXCEPT !.nonce = Field(HexText(3, 7)),
                                     !.balance = Field(HexText(6, 1))] >>,
    << [NoOverride(Acct.contract) EXCEPT !.code = Field(<<>>)] >>,
    << [NoOverride(Acct.contract) EXCEPT !.code = Field(<<"0", "x">>)] >>,
    << [NoOverride(Acct.contract) EXCEPT !.code = Field(<<"0", "x">> \o ReverterCode)] >>,
    << [NoOverride(Acct.contract) EXCEPT !.state = SlotsOf(<<GoodSlot>>)] >>,
    << [NoOverride(Acct.contract) EXCEPT !.stateDiff = SlotsOf(<<GoodSlot>>)] >>,
    << [NoOverride(Acct.to) EXCEPT !.balance = Field(<<>>)],
       [NoOverride(Acct.contract) EXCEPT !.state = SlotsOf(<<GoodSlot>>),
                                         !.stateDiff = SlotsOf(<<GoodSlot>>)] >>,
    << [NoOverride(Acct.to) EXCEPT !.balance = Field(<<>>)],
       [NoOverride(Acct.contract) EXCEPT !.state = SlotsOf(<<GoodSlot, ShortSlot>>)] >>,
    << [NoOverride(Acct.contract) EXCEPT !.state = SlotsOf(<<>>)] >>,
    << [NoOverride(Acct.contract) EXCEPT !.state = SlotsOf(<<ShortData>>)] >>,
    << [NoOverride(Acct.contract) EXCEPT !.stateDiff = SlotsOf(<<ShortSlot>>)] >>,
    << [NoOverride(Acct.contract) EXCEPT !.stateDiff = SlotsOf(<<GoodSlot, LongData>>)] >>,
    << [NoOverride(Acct.contract) EXCEPT !.state = SlotsOf(<<NullData>>)] >>,
    << [NoOverride(Acct.contract) EXCEPT !.stateDiff = SlotsOf(<<GoodSlot, UndefinedData>>)] >>,
    << [NoOverride(Acct.contract) EXCEPT !.stateDiff = SlotsOf(<<ShortSlotNullData>>)] >>,
    << [NoOverride(Acct.contract) EXCEPT !.state = SlotsOf(<<GoodSlot, SecondSlot>>)] >> }

DataChoices == { <<>>, <<1, 1>>, <<2, 1, 5>>, <<3, Acct.to>>, <<5, Acct.to, 1>>, <<7>> }
ToChoices == {Acct.contract, Acct.to, NoAddress}
GasChoices == {20000, 21000, 23500, 90000}
ValueChoices == {NoValue, 15}
Entry(a, keys) == [address |-> a, storageKeys |-> keys]
AccessListChoices ==
  { <<Entry(Acct.addr, <<>>)>>, <<Entry(Acct.contract, <<1>>)>>, <<Entry(Acct.to, <<>>)>>,
    <<Entry(Acct.contract, <<1, 1>>), Entry(Acct.to, <<>>), Entry(Acct.contract, <<1, 1>>)>> }

\* a plain call of the contract at the head block, and the requests that
\* depart from it in the fields named by departs
Fields == {"to", "gas", "gasPrice", "value", "data", "block", "accessList", "overrides", "common"}
Choice(departs, field, plain, all) == IF field \in departs THEN all \ {plain} ELSE {plain}

RequestsDeparting(departs) ==
  { [tx |-> [from |-> Acct.from, to |-> to, gas |-> gas, gasPrice |-> gasPrice,
             value |-> value, data |-> data, block |-> block,
             hasAccessList |-> al # <<>>, accessList |-> al],
     hasOverrides |-> ov # <<>>, overrides |-> ov,
     block |-> block, common |-> common] :
    to \in Choice(departs, "to", Acct.contract, ToChoices),
    gas \in Choice(departs, "gas", 90000, GasChoices),
    gasPrice \in Choice(departs, "gasPrice", 0, 0..MaxGasPrice),
    value \in Choice(departs, "value", NoValue, ValueChoices),
    data \in Choice(departs, "data", <<1, 1>>, DataChoices),
    block \in Choice(departs, "block", Len(Blocks), DOMAIN Blocks),
    al \in Choice(departs, "accessList", <<>>, AccessListChoices \cup {<<>>}),
    ov \in Choice(departs, "overrides", <<>>, OverrideChoices),
    common \in Choice(departs, "common", "berlin", {"berlin", "byzantium"}) }

Requests ==
  UNION { RequestsDeparting(departs) :
          departs \in { d \in SUBSET Fields : Cardinality(d) <= MaxDepartures } }

NoOutcome == [kind |-> "none", accessList |-> <<>>, gasUsed |-> <<>>,
              callResult |-> NoCallResult, message |-> ""]

Env == [sim |-> sim, db |-> leveldb, thrown |-> ""]

\* no second handler: one that is never constructed
NoPeer == [request |-> CHOOSE r \in RequestsDeparting({}) : TRUE,
           sim |-> NewSim, outcome |-> NoOutcome]

----------------------------------------------------------------------------
(* Actions *)

Init ==
  /\ request \in Requests
  /\ leveldb = InitialDb
  /\ chain = InitialChain
  /\ pre = [db |-> InitialDb, chain |-> InitialChain]
  /\ sim = NewSim
  /\ outcome = NoOutcome
  /\ prior = NoOutcome
  /\ peer = NoPeer

DoInitialize ==
  /\ sim.pc = "constructed"
  /\ LET e == Initialize(Env, chain.trie, request)
     IN /\ sim' = [e.sim EXCEPT !.pc = IF e.thrown = "" THEN "initialized" ELSE "rejected"]
        /\ leveldb' = e.db
        /\ outcome' = IF e.thrown = "" THEN outcome
                      ELSE [NoOutcome EXCEPT !.kind = "Error", !.message = e.thrown]
  /\ UNCHANGED <<peer, request, chain, pre, prior>>

Thrown(r) ==
  [NoOutcome EXCEPT !.kind = r.thrown, !.callResult = r.callResult,
     !.message = IF r.thrown = "Error" THEN "Unknown error when simulating transaction." ELSE ""]

DoRunCall ==
  /\ sim.pc \in {"initialized", "rejected"}
  /\ LET r == RunCall(Env)
     IN /\ sim' = [r.e.sim EXCEPT !.pc = "done", !.callResult = r.callResult]
        /\ leveldb' = r.e.db
        /\ outcome' = IF r.thrown = ""
                      THEN [NoOutcome EXCEPT !.kind = "EVMResult", !.callResult = r.callResult]
                      ELSE Thrown(r)
  /\ UNCHANGED <<peer, request, chain, pre, prior>>

\* line 299: createAccessList(initialAccessList) is entered
CalEnter ==
  /\ sim.pc \in {"initialized", "rejected"}
  /\ sim' = [sim EXCEPT !.pc = "cal_checkpoint",
                        !.previousAccessList = request.tx.accessList,
                        !.iterations = 0]
  /\ UNCHANGED <<peer, request, leveldb, chain, pre, outcome, prior>>

\* line 304
CalCheckpoint ==
  /\ sim.pc = "cal_checkpoint"
  /\ LET e == Checkpoint(Env)
     IN sim' = [e.sim EXCEPT !.pc = "cal_run"] /\ leveldb' = e.db
  /\ UNCHANGED <<peer, request, chain, pre, outcome, prior>>

CalSwallowing(thrown) == "cal_generate"

\* line 306: a runCall that throws ends createAccessList
CalAfterRunCall(thrown) == IF thrown = "" THEN "cal_generate" ELSE "done"

\* line 306
CalRunCall ==
  /\ sim.pc = "cal_run"
  /\ LET r == RunCall(Env)
     IN /\ sim' = [r.e.sim EXCEPT !.pc = CalAfterRunCall(r.thrown),
                                  !.callResult = r.callResult]
        /\ leveldb' = r.e.db
        /\ outcome' = IF r.thrown = "" THEN outcome ELSE Thrown(r)
  /\ UNCHANGED <<peer, request, chain, pre, prior>>

CalResultWithoutDataFee(s, accessList) ==
  [accessList |-> accessList, gasUsed |-> QuantityToString(s.callResult.gasUsed + s.intrinsicGas),
   kind |-> "result", callResult |-> s.callResult, message |-> ""]

\* lines 316-323: the value returned for the list generated last
CalResult(s, accessList) ==
  [NoOutcome EXCEPT !.kind = "result", !.accessList = accessList,
     !.gasUsed = QuantityToString(s.callResult.gasUsed
                                  + (s.intrinsicGas + DataFeeEIP2930(accessList))),
     !.callResult = s.callResult]

AlwaysSame(previousAccessList, accessList) == TRUE

\* line 316
CalIsSame(previousAccessList, accessList) == AreAccessListsSame(previousAccessList, accessList)

CalSameIteration(iterations) == iterations

\* line 327: iterations++
CalNextIteration(iterations) == iterations + 1

CalNoRevert(e) == e

\* line 312
CalRevert(e) == Revert(e)

\* lines 307-328
CalGenerate ==
  /\ sim.pc = "cal_generate"
  /\ LET accessList == GenerateAccessList(Env, sim.accessListExclusions, sim.addressesOnlyStorage)
         e == CalRevert(Env)
         s == [e.sim EXCEPT !.accessList = accessList,
                            !.firstGenerated = IF sim.iterations = 0 THEN accessList ELSE @]
     IN /\ leveldb' = e.db
        /\ IF CalIsSame(sim.previousAccessList, accessList)
           THEN /\ sim' = [s EXCEPT !.pc = "done"]
                /\ outcome' = CalResult(s, accessList)
           ELSE /\ sim' = [s EXCEPT !.previousAccessList = accessList,
                                    !.iterations = CalNextIteration(@),
                                    !.pc = IF CalNextIteration(sim.iterations) < MAX_ITERATIONS
                                           THEN "cal_checkpoint" ELSE "done"]
                /\ outcome' = IF CalNextIteration(sim.iterations) < MAX_ITERATIONS THEN outcome
                              ELSE [NoOutcome EXCEPT !.kind = "undefined"]
  /\ UNCHANGED <<peer, request, chain, pre, prior>>

\* the returned list is sent back as the transaction's access list, to a
\* fresh handler over the same block, transaction and overrides
Resubmit ==
  /\ sim.pc = "done" /\ outcome.kind = "result" /\ prior.kind = "none"
  /\ prior' = outcome
  /\ request' = [request EXCEPT !.tx.accessList = outcome.accessList,
                                !.tx.hasAccessList = TRUE]
  /\ sim' = NewSim
  /\ outcome' = NoOutcome
  /\ UNCHANGED <<peer, leveldb, chain, pre>>

Next ==
  \/ DoInitialize
  \/ DoRunCall
  \/ CalEnter
  \/ CalCheckpoint
  \/ CalRunCall
  \/ CalGenerate
  \/ Resubmit

Spec == Init /\ [][Next]_vars

----------------------------------------------------------------------------
(* createAccessList over an EVM left open: vm.runCall succeeds and touches  *)
(* an address of the environment's choosing, either the callee alone or an  *)
(* address no run has touched before.                                       *)

OpenVmRunCall(e, opts, a) ==
  LET e1 == Checkpoint(e)
      cost == AccessAddressCost(e1, a)
      e2 == Commit(AccessAddress(e1, a))
      e3 == DeliverSteps([e2 EXCEPT !.sim.delivered = <<>>], <<Op("BALANCE", a, 0, 0)>>, 1)
  IN [e |-> [e3 EXCEPT !.sim.vmRuns = @ + 1],
      result |-> [hasGasUsed |-> TRUE, gasUsed |-> cost, exceptionError |-> "",
                  returnValue |-> 0, programCounter |-> 1]]

\* lines 272-283 of runCall, over the open EVM
OpenRunCall(e, a) ==
  LET r == OpenVmRunCall(e, e.sim.runCallOpts, a)
  IN [e |-> EmitAfter(r.e), callResult |-> r.result, thrown |-> ""]

InitOpen ==
  /\ request \in RequestsDeparting({})
  /\ leveldb = InitialDb
  /\ chain = InitialChain
  /\ pre = [db |-> InitialDb, chain |-> InitialChain]
  /\ sim = NewSim
  /\ outcome = NoOutcome
  /\ prior = NoOutcome
  /\ peer = NoPeer

CalRunCallOpen ==
  /\ sim.pc = "cal_run" /\ sim.initializationError = "" /\ sim.hasRunCallOpts
  /\ \E a \in {request.tx.to, FreshBase + sim.iterations + 1} :
       LET r == OpenRunCall(Env, a)
       IN /\ sim' = [r.e.sim EXCEPT !.pc = "cal_generate", !.callResult = r.callResult]
          /\ leveldb' = r.e.db
  /\ UNCHANGED <<peer, request, chain, pre, outcome, prior>>

NextOpen ==
  \/ DoInitialize
  \/ CalEnter
  \/ CalCheckpoint
  \/ CalRunCallOpen
  \/ CalGenerate

SpecOpenVM == InitOpen /\ [][NextOpen]_vars

\* the requests of two handlers that run at the same time
FirstRequests ==
  RequestsDeparting({}) \cup RequestsDeparting({"data"})
    \cup {r \in RequestsDeparting({"overrides"}) :
            r.overrides[1].code.has \/ r.overrides[1].nonce.has
              \/ (r.overrides[1].state.has /\ r.overrides[1].state.slots = <<GoodSlot>>)}

SecondRequests ==
  {r \in RequestsDeparting({}) \cup RequestsDeparting({"data"}) :
     r.tx.data \in {<<1, 1>>, <<2, 1, 5>>, <<5, Acct.to, 1>>}}

InitTwo ==
  /\ request \in FirstRequests
  /\ leveldb = InitialDb
  /\ chain = InitialChain
  /\ pre = [db |-> InitialDb, chain |-> InitialChain]
  /\ sim = NewSim
  /\ outcome = NoOutcome
  /\ prior = NoOutcome
  /\ \E r \in SecondRequests : peer = [request |-> r, sim |-> NewSim, outcome |-> NoOutcome]

\* at an await the event loop goes on with the other handler: the one that
\* was running is suspended with its fields, the suspended one runs
Switch ==
  /\ peer' = [request |-> request, sim |-> sim, outcome |-> outcome]
  /\ request' = peer.request
  /\ sim' = peer.sim
  /\ outcome' = peer.outcome
  /\ UNCHANGED <<leveldb, chain, pre, prior>>

NextTwo ==
  \/ DoInitialize
  \/ DoRunCall
  \/ CalEnter
  \/ CalCheckpoint
  \/ CalRunCall
  \/ CalGenerate
  \/ Switch

SpecTwo == InitTwo /\ [][NextTwo]_vars

----------------------------------------------------------------------------
(* GanacheTrie on its own: a trie that is checkpointed, reverted, given a  *)
(* context and copied.  `chain.trie` is the trie, `sim.trie` the last copy *)
(* made of it and `request` the argument of that copy.                     *)

NotCopied == [copied |-> FALSE, includeCheckpoints |-> FALSE]

InitTrie ==
  /\ request = NotCopied
  /\ leveldb = InitialDb
  /\ chain \in {[trie |-> [root |-> Blocks[b].stateRoot, checkpoints |-> <<>>], head |-> 1] :
                  b \in DOMAIN Blocks}
  /\ pre = [db |-> InitialDb, chain |-> InitialChain]
  /\ sim = NewSim
  /\ outcome = NoOutcome
  /\ prior = NoOutcome
  /\ peer = NoPeer

TrieCheckpoint ==
  /\ Len(chain.trie.checkpoints) < MaxCheckpoints
  /\ chain' = [chain EXCEPT !.trie.checkpoints = Append(@, [root |-> chain.trie.root, kv |-> {}])]
  /\ UNCHANGED <<request, leveldb, pre, sim, outcome, prior, peer>>

TrieRevert ==
  /\ Len(chain.trie.checkpoints) > 0
  /\ chain' = [chain EXCEPT
                 !.trie.root = chain.trie.checkpoints[Len(chain.trie.checkpoints)].root,
                 !.trie.checkpoints = SubSeq(@, 1, Len(@) - 1)]
  /\ UNCHANGED <<request, leveldb, pre, sim, outcome, prior, peer>>

TrieSetContext ==
  /\ \E b \in DOMAIN Blocks :
       chain' = [chain EXCEPT !.trie = SetContext(@, Blocks[b].stateRoot)]
  /\ UNCHANGED <<request, leveldb, pre, sim, outcome, prior, peer>>

\* copy(includeCheckpoints)
TrieCopyCall ==
  /\ \E includeCheckpoints \in BOOLEAN :
       /\ sim' = [sim EXCEPT !.trie = TrieCopy(chain.trie, includeCheckpoints)]
       /\ request' = [copied |-> TRUE, includeCheckpoints |-> includeCheckpoints]
  /\ UNCHANGED <<leveldb, chain, pre, outcome, prior, peer>>

NextTrie ==
  \/ TrieCheckpoint
  \/ TrieRevert
  \/ TrieSetContext
  \/ TrieCopyCall

SpecTrie == InitTrie /\ [][NextTrie]_vars

----------------------------------------------------------------------------
(* Data: a value of bytes with an optional fixed byte length.  `request`   *)
(* is the Data object with the bytes that Buffer.allocUnsafe hands out,    *)
(* `outcome` the result of the last toBuffer or toString.                  *)

Undefined == -1

\* a || b for an optional byte length
OrElse(a, b) == IF a = Undefined \/ a = 0 THEN b ELSE a

\* Buffer.prototype.toString("hex")
RECURSIVE ToHexString(_)
ToHexString(buf) ==
  IF buf = <<>> THEN <<>>
  ELSE <<HexDigits[(Head(buf) \div 16) + 1], HexDigits[(Head(buf) % 16) + 1]>> \o ToHexString(Tail(buf))

\* "0".repeat(count)
Repeat(c, count) == [i \in 1..count |-> c]

\* String.prototype.slice(0, end) for end >= 0
Slice(value, end) == SubSeq(value, 1, IF end < Len(value) THEN end ELSE Len(value))

\* lines 49-64
StringToFixedByteLength(value, byteLength) ==
  LET desiredCharLength == byteLength * 2
      padCharCount == desiredCharLength - Len(value)
  IN IF desiredCharLength = Len(value) THEN value
     ELSE IF padCharCount > 0 THEN Repeat("0", padCharCount) \o value
     ELSE Slice(value, desiredCharLength)

\* Buffer.allocUnsafe(size): size bytes of whatever the memory held
AllocUnsafe(size, held) == [i \in 1..size |-> held]

\* buf.fill(value, offset, end)
Fill(buf, value, offset, end) ==
  [i \in DOMAIN buf |-> IF i > offset /\ i <= end THEN value ELSE buf[i]]

\* source.copy(target, targetStart, sourceStart, sourceEnd): the target after it
Copy(source, target, targetStart, sourceStart, sourceEnd) ==
  LET last == IF sourceEnd < Len(source) THEN sourceEnd ELSE Len(source)
      avail == last - sourceStart
      room == Len(target) - targetStart
      n == IF avail < room THEN avail ELSE room
  IN [i \in DOMAIN target |->
        IF i > targetStart /\ i <= targetStart + n THEN source[sourceStart + (i - targetStart)]
        ELSE target[i]]

BufferToFixedByteLengthUnfilled(value, byteLength, held) ==
  IF byteLength = Len(value) THEN value
  ELSE LET fixedLengthValue == AllocUnsafe(byteLength, held)
           sourceStart == 0
           targetStart == IF Len(value) > byteLength THEN 0 ELSE byteLength - Len(value)
       IN Copy(value, fixedLengthValue, targetStart, sourceStart, byteLength)

\* lines 84-101
BufferToFixedByteLength(value, byteLength, held) ==
  IF byteLength = Len(value) THEN value
  ELSE LET fixedLengthValue == AllocUnsafe(byteLength, held)
           sourceStart == 0
           targetStart == IF Len(value) > byteLength THEN 0 ELSE byteLength - Len(value)
           filled == IF targetStart > 0 THEN Fill(fixedLengthValue, 0, 0, targetStart)
                     ELSE fixedLengthValue
       IN Copy(value, filled, targetStart, sourceStart, byteLength)

\* lines 45-47, for a value that is not null
DataFrom(value, byteLength) == [bufferValue |-> value, byteLength |-> byteLength]

\* lines 17-30, for a bufferValue that is not null
DataToString(d, byteLength) ==
  LET length == OrElse(byteLength, d.byteLength)
  IN IF length = Undefined THEN <<"0", "x">> \o ToHexString(d.bufferValue)
     ELSE <<"0", "x">> \o StringToFixedByteLength(ToHexString(d.bufferValue), length)

\* lines 32-43, for a bufferValue that is not null
DataToBuffer(d, byteLength, held) ==
  LET length == OrElse(byteLength, d.byteLength)
  IN IF length = Undefined \/ length = Len(d.bufferValue) THEN d.bufferValue
     ELSE BufferToFixedByteLength(d.bufferValue, length, held)

ByteChoices == {0, 1, 171}

BufferChoices == UNION {[1..n -> ByteChoices] : n \in 0..MaxBytes}

NoResult == [kind |-> "none", buffer |-> <<>>, string |-> <<>>]

InitData ==
  /\ \E value \in BufferChoices, byteLength \in 1..MaxByteLength, held \in {0, 255} :
       request = [value |-> value, byteLength |-> byteLength, held |-> held]
  /\ leveldb = InitialDb
  /\ chain = InitialChain
  /\ pre = [db |-> InitialDb, chain |-> InitialChain]
  /\ sim = NewSim
  /\ outcome = NoResult
  /\ prior = NoOutcome
  /\ peer = NoPeer

\* lines 103-105: Data.toBuffer(value, byteLength)
StaticToBuffer ==
  /\ outcome' = [NoResult EXCEPT !.kind = "toBuffer",
                   !.buffer = DataToBuffer(DataFrom(request.value, request.byteLength),
                                           Undefined, request.held)]
  /\ UNCHANGED <<peer, request, leveldb, chain, pre, sim, prior>>

\* lines 107-109: Data.toString(value, byteLength)
StaticToString ==
  /\ outcome' = [NoResult EXCEPT !.kind = "toString",
                   !.string = DataToString(DataFrom(request.value, request.byteLength), Undefined)]
  /\ UNCHANGED <<peer, request, leveldb, chain, pre, sim, prior>>

NextData == StaticToBuffer \/ StaticToString

SpecData == InitData /\ [][NextData]_vars

----------------------------------------------------------------------------
(* Properties *)

Finished == sim.pc = "done"
Returned == Finished /\ outcome.kind = "result"

\* the chain's account, read through the chain's own trie and leveldb
ChainAccount(db, c, a) ==
  IF c.trie.root \in db.tries THEN c.trie.root.acct[a] ELSE "missing"

\* C1: whatever the handler has done so far (initialize, then runCall or
\* createAccessList, completed or raised), the chain's trie root, leveldb's
\* tries and key/value pairs, every account read through the chain and the
\* head block number are what they were before the handler was constructed.
C1_Isolation ==
  /\ chain.trie.root = pre.chain.trie.root
  /\ leveldb.tries = pre.db.tries
  /\ leveldb.kv = pre.db.kv
  /\ \A a \in Accounts : ChainAccount(leveldb, chain, a) = ChainAccount(pre.db, pre.chain, a)
  /\ chain.head = pre.chain.head

\* an eth_call that wrote the contract's storage on top of overrides has
\* finished: the overlay's state is no state of the chain
C1_Witness ==
  /\ Finished /\ outcome.kind = "EVMResult" /\ request.hasOverrides
  /\ sim.vmRuns = 1 /\ request.tx.data = <<2, 1, 5>>
  /\ sim.trie.root \notin leveldb.tries
  /\ sim.trie.root.stor[Acct.contract][1] = 5

IntrinsicOf(req) == CalculateIntrinsicGas(req.tx.data, req.tx.to # NoAddress, req.common)

\* C2: when tx.gas is below the intrinsic gas, initialize records OUT_OF_GAS
\* and installs no step listener, the EVM is never invoked and no step event
\* is emitted, and runCall (alone or inside createAccessList) fails with a
\* CallError whose exceptionError is OUT_OF_GAS.
C2_IntrinsicCoverage ==
  (sim.pc # "constructed" /\ request.tx.gas < IntrinsicOf(request)) =>
    /\ sim.initializationError = "OUT_OF_GAS"
    /\ ~sim.stepListener
    /\ sim.vmRuns = 0
    /\ sim.events.step = 0
    /\ Finished => /\ outcome.kind = "CallError"
                   /\ outcome.callResult.exceptionError = "OUT_OF_GAS"

C2_Witness ==
  /\ Finished /\ request.tx.gas < IntrinsicOf(request)
  /\ outcome.kind = "CallError" /\ sim.events.before = 1

Addresses(accessList) == {accessList[i].address : i \in DOMAIN accessList}

\* the addresses the EVM touched in the iterations of createAccessList
Touched == sim.reverted.addrs \cup {p[1] : p \in sim.reverted.slots}

\* C3: under EIP-2929 a returned access list has no entry for the caller or
\* for a precompile, has an entry for the callee only with at least one
\* storage key, and has an entry for every other address the EVM touched,
\* storage keys or not.
C3_PreWarmExclusion ==
  (Returned /\ IsActivatedEIP(request.common, 2929)) =>
    /\ request.tx.from \notin Addresses(outcome.accessList)
    /\ Precompiles \cap Addresses(outcome.accessList) = {}
    /\ \A i \in DOMAIN outcome.accessList :
         outcome.accessList[i].address = request.tx.to => outcome.accessList[i].storageKeys # <<>>
    /\ Touched \ ({request.tx.from, request.tx.to} \cup Precompiles)
         \subseteq Addresses(outcome.accessList)

\* a returned list that holds an account the call read the balance of, with
\* no storage keys, next to the callee with a storage key
C3_Witness ==
  /\ Returned /\ IsActivatedEIP(request.common, 2929)
  /\ \E i \in DOMAIN outcome.accessList :
       /\ outcome.accessList[i].address # request.tx.to
       /\ outcome.accessList[i].storageKeys = <<>>
       /\ outcome.accessList[i].address \in Touched
  /\ \E i \in DOMAIN outcome.accessList :
       /\ outcome.accessList[i].address = request.tx.to
       /\ outcome.accessList[i].storageKeys # <<>>

\* C4: createAccessList never completes without either returning an
\* {accessList, gasUsed} result or raising; when MAX_ITERATIONS iterations
\* have each generated a list that differs from the previous one, it raises
\* NonConvergence.
C4_NonConvergenceRaised ==
  /\ Finished => outcome.kind \in {"result", "EVMResult", "CallError", "Error", "NonConvergence"}
  /\ (Finished /\ sim.iterations >= MAX_ITERATIONS) => outcome.kind = "NonConvergence"

Seed == request.tx.accessList

\* the list an iteration compares its own against: the seed in the first
\* iteration, the list the preceding iteration generated afterwards
PreviousOf(s) == IF s.iterations = 0 THEN Seed ELSE s.accessList

\* C5: an iteration whose generated list equals the previous list (the seed
\* in the first iteration, the preceding iteration's list afterwards) returns
\* that generated list at once; an iteration whose list differs returns
\* nothing and another iteration follows; a seed that differs from the first
\* generated list is never the list returned.
C5_ReturnsAtFirstFixedPoint ==
  [][ sim.pc = "cal_generate" =>
        LET generated == GenerateAccessList(Env, sim.accessListExclusions,
                                            sim.addressesOnlyStorage)
        IN IF AreAccessListsSame(PreviousOf(sim), generated)
           THEN /\ sim'.pc = "done" /\ outcome'.kind = "result"
                /\ outcome'.accessList = generated
                /\ sim'.iterations = sim.iterations
                /\ ~AreAccessListsSame(Seed, sim'.firstGenerated) =>
                     /\ sim.iterations >= 1
                     /\ ~AreAccessListsSame(Seed, outcome'.accessList)
           ELSE /\ outcome'.kind # "result"
                /\ sim'.iterations = sim.iterations + 1
                /\ sim'.pc = "cal_checkpoint" ]_vars

\* a nonsense seed was given, the first generated list differed from it, and
\* the second iteration returned a list equal to the first generated one
C5_Witness ==
  /\ Returned /\ sim.iterations = 1
  /\ Seed # <<>> /\ ~AreAccessListsSame(Seed, sim.firstGenerated)
  /\ AreAccessListsSame(outcome.accessList, sim.firstGenerated)
  /\ outcome.accessList # <<>>

\* C6: when the EVM is about to run in an iteration after the first, every
\* address and storage slot of the list the previous iteration generated is
\* warm in the state manager's access set.
C6_PreviousListWarm ==
  (sim.pc = "cal_run" /\ sim.iterations >= 1) =>
    \A i \in DOMAIN sim.previousAccessList :
      /\ IsWarmedAddress(Env, sim.previousAccessList[i].address)
      /\ \A k \in Range(sim.previousAccessList[i].storageKeys) :
           IsWarmedStorage(Env, sim.previousAccessList[i].address, k)

\* the gas a transaction uses when it is executed on the chain's state:
\* intrinsic gas, the data fee of its access list, and the EVM's gas with the
\* list and the defaults warm
GasExecuted(req) ==
  LET e == Initialize([sim |-> NewSim, db |-> leveldb, thrown |-> ""], chain.trie, req)
      r == VmRunCall(e, e.sim.runCallOpts)
      fee == IF req.tx.hasAccessList THEN DataFeeEIP2930(req.tx.accessList) ELSE 0
  IN r.result.gasUsed + IntrinsicOf(req) + fee

WithAccessList(req, accessList) ==
  [req EXCEPT !.tx.accessList = accessList, !.tx.hasAccessList = TRUE]

WithoutAccessList(req) ==
  [req EXCEPT !.tx.accessList = <<>>, !.tx.hasAccessList = FALSE]

\* C7: the gasUsed createAccessList returns is the gas the transaction uses
\* when executed with the returned list attached, and, for a list that is
\* not empty, is not the gas it uses without a list.
C7_GasIsGasWithList ==
  Returned =>
    /\ HexToInt(outcome.gasUsed) = GasExecuted(WithAccessList(request, outcome.accessList))
    /\ outcome.accessList # <<>> =>
         HexToInt(outcome.gasUsed) # GasExecuted(WithoutAccessList(request))

\* C8: the gasUsed createAccessList returns is the gasUsed of its last EVM
\* run, plus the intrinsic gas of initialize, plus the EIP-2930 data fee of
\* the returned list; the intrinsic gas is the base cost, the creation cost
\* and the cost of the data bytes, and nothing for the access list.
C8_GasUsedSum ==
  Returned =>
    /\ HexToInt(outcome.gasUsed)
         = sim.callResult.gasUsed + sim.intrinsicGas + DataFeeEIP2930(outcome.accessList)
    /\ sim.intrinsicGas = IntrinsicOf(WithoutAccessList(request))
    /\ sim.intrinsicGas
         = TRANSACTION_GAS + (IF request.tx.to = NoAddress THEN TRANSACTION_CREATION ELSE 0)
           + DataGas(request.tx.data, request.common)

\* a list given with the transaction came back, with a storage key, from a
\* run that used gas
C8_Witness ==
  /\ Returned /\ request.tx.hasAccessList /\ sim.callResult.gasUsed > 0
  /\ \E i \in DOMAIN outcome.accessList : outcome.accessList[i].storageKeys # <<>>
  /\ request.tx.data # <<>>

\* C9: a fresh handler for the same block, transaction and overrides, whose
\* transaction access list and seed are the list a createAccessList
\* returned, returns the same list and the same gasUsed.
C9_IdempotentUnderOutput ==
  (Returned /\ prior.kind = "result") =>
    /\ AreAccessListsSame(outcome.accessList, prior.accessList)
    /\ outcome.gasUsed = prior.gasUsed

\* the handler is about to call vm.runCall
AboutToInvoke ==
  /\ sim.initializationError = "" /\ sim.hasRunCallOpts
  /\ sim.pc \in {"initialized", "cal_checkpoint", "cal_run"}

Sender == GetAccount(Env, request.tx.from)

BlockSender == Blocks[request.block].stateRoot.acct[request.tx.from]

QuantityOf(text) == IF text = <<>> THEN 0 ELSE HexToInt(text)

\* the sender's nonce and balance in the block, replaced by the last override
\* that names the sender and carries the field
OverriddenSender ==
  LET n == {i \in DOMAIN request.overrides :
              request.overrides[i].address = request.tx.from /\ request.overrides[i].nonce.has}
      b == {i \in DOMAIN request.overrides :
              request.overrides[i].address = request.tx.from /\ request.overrides[i].balance.has}
      last(s) == CHOOSE i \in s : \A j \in s : j <= i
  IN [nonce |-> IF n = {} THEN BlockSender.nonce
                ELSE QuantityOf(request.overrides[last(n)].nonce.text),
      balance |-> IF b = {} THEN BlockSender.balance
                  ELSE QuantityOf(request.overrides[last(b)].balance.text)]

BlockState == Blocks[request.block].stateRoot

Overlay == World(Env)

\* a "0x"-prefixed, non-empty string that is not 66 characters long
BadLength(text) == text # <<>> /\ HasHexPrefix(text) /\ Len(text) # 66

\* a slot that #validateStorageOverride refuses
Refused(x) == BadLength(x.slot) \/ x.value.kind # "string" \/ BadLength(x.value.text)

\* some slot of the map is refused
InvalidSlots(slots, fieldName) == \E i \in DOMAIN slots : Refused(slots[i])

OverrideFails(o) ==
  \/ o.state.has /\ o.stateDiff.has
  \/ o.state.has /\ InvalidSlots(o.state.slots, "State")
  \/ o.stateDiff.has /\ InvalidSlots(o.stateDiff.slots, "StateDiff")

\* the first override entry that makes #applySimulationOverrides throw
FirstFailing ==
  LET failing == {i \in DOMAIN request.overrides : OverrideFails(request.overrides[i])}
  IN IF failing = {} THEN 0 ELSE CHOOSE i \in failing : \A j \in failing : i <= j

BothAtFirstFailing ==
  /\ FirstFailing # 0
  /\ request.overrides[FirstFailing].state.has
  /\ request.overrides[FirstFailing].stateDiff.has

HasBoth == \E i \in DOMAIN request.overrides :
             request.overrides[i].state.has /\ request.overrides[i].stateDiff.has

InitializeRejected == sim.pc # "constructed" /\ ~sim.hasRunCallOpts /\ sim.initializationError = ""

BothMessage == "both state and stateDiff overrides specified"

\* C11 as stated: once initialize has run with overrides in which some
\* address carries both state and stateDiff, it has rejected with "both
\* state and stateDiff overrides specified", the EVM is never invoked and no
\* storage slot of that address is written.
C11_BothRejectedAlways ==
  (sim.pc # "constructed" /\ HasBoth) =>
    /\ InitializeRejected
    /\ sim.pc = "rejected" => outcome.kind = "Error" /\ outcome.message = BothMessage
    /\ sim.vmRuns = 0
    /\ \A i \in DOMAIN request.overrides :
         (request.overrides[i].state.has /\ request.overrides[i].stateDiff.has) =>
           Overlay.stor[request.overrides[i].address] = BlockState.stor[request.overrides[i].address]

\* C11, amended: when tx.gas covers the intrinsic gas and the first override
\* entry that fails is one that carries both state and stateDiff, initialize
\* rejects with "both state and stateDiff overrides specified", the EVM is
\* never invoked by that handler, and no storage slot of that address is
\* written.
C11_BothRejected ==
  (sim.pc # "constructed" /\ BothAtFirstFailing /\ request.tx.gas >= IntrinsicOf(request)) =>
    /\ InitializeRejected
    /\ sim.pc = "rejected" => outcome.kind = "Error" /\ outcome.message = BothMessage
    /\ sim.vmRuns = 0
    /\ Overlay.stor[request.overrides[FirstFailing].address]
         = BlockState.stor[request.overrides[FirstFailing].address]

\* createAccessList was called after such a rejection and threw without a
\* run; the account override of the entry before the failing one is in place
C11_Witness ==
  /\ Finished /\ BothAtFirstFailing /\ FirstFailing = 2
  /\ sim.previousAccessList = Seed /\ Depth(Env) = 2
  /\ outcome.kind = "Error" /\ outcome.message = "Unknown error when simulating transaction."
  /\ Overlay.acct[Acct.to].balance = 0 /\ BlockState.acct[Acct.to].balance # 0

\* C12: `after` is emitted at most once by a handler, and only for a runCall
\* that succeeded: a runCall or createAccessList that ended in a CallError
\* has emitted none, one that returned has emitted exactly one.
C12_AfterOnceOnSuccess ==
  /\ sim.events.after <= 1
  /\ (Finished /\ outcome.kind = "CallError") => sim.events.after = 0
  /\ (Finished /\ outcome.kind \in {"EVMResult", "result"}) => sim.events.after = 1

\* C13: `before` is emitted once by a handler, by initialize and by nothing
\* else, and no step event (the listener that also emits console.log) and no
\* `after` event is emitted until it has been, however many times the EVM
\* runs.
C13_BeforeOnceAndFirst ==
  [][ /\ sim'.events.before <= 1
      /\ sim'.pc # "constructed" => sim'.events.before = 1
      /\ sim'.events.before > sim.events.before =>
           /\ sim.pc = "constructed"
           /\ sim.events.step = 0 /\ sim.events.after = 0 /\ sim.vmRuns = 0
      /\ (sim'.events.step > sim.events.step \/ sim'.events.after > sim.events.after) =>
           sim.events.before = 1 ]_vars

\* createAccessList ran the EVM twice, with steps, after one `before`
C13_Witness ==
  /\ Returned /\ sim.vmRuns = 2 /\ sim.events.step >= 2 /\ sim.events.before = 1

\* the call parameters initialize stores for the request
StoredCallOpts ==
  [caller |-> request.tx.from, data |-> request.tx.data, gasPrice |-> request.tx.gasPrice,
   gasLimit |-> request.tx.gas - IntrinsicOf(request), to |-> request.tx.to,
   value |-> IF request.tx.value = NoValue THEN 0 ELSE request.tx.value,
   block |-> request.tx.block]

\* C14: a runCall after an initialize that resolved without an
\* initialization error invokes the EVM once, with the call parameters
\* initialize stored, and returns the EVM's result when its exceptionError is
\* empty and only then; otherwise it throws a CallError that carries that
\* whole result, return value included.
C14_RunCallOnce ==
  [][ (sim.pc = "initialized" /\ sim.initializationError = "" /\ sim'.pc = "done") =>
        LET result == VmRunCall(Env, StoredCallOpts).result
        IN /\ sim.runCallOpts = StoredCallOpts
           /\ sim'.vmRuns = sim.vmRuns + 1
           /\ outcome'.callResult = result
           /\ outcome'.callResult.hasGasUsed
           /\ (outcome'.kind = "EVMResult") <=> (result.exceptionError = "")
           /\ result.exceptionError # "" => outcome'.kind = "CallError" ]_vars

\* an eth_call whose run reverted threw a CallError with the run's result
C14_Witness ==
  /\ Finished /\ outcome.kind = "CallError" /\ sim.vmRuns = 1 /\ Depth(Env) = 1
  /\ outcome.callResult.hasGasUsed /\ outcome.callResult.exceptionError # ""
  /\ outcome.callResult.programCounter > 0

GetStoredBalance == <<5, Acct.to, 1>>

\* C15: the overlay initialize leaves is the state of the simulation block,
\* not of the chain's head: without overrides its storage and every account
\* but the sender's are the block's, and createAccessList of
\* getStoredBalance(to, 1) returns the contract alone for the block before
\* the slot was written and the contract and `to` for the block after.
C15_PinnedToBlock ==
  /\ (sim.pc = "initialized" /\ ~request.hasOverrides) =>
       /\ Overlay.stor = BlockState.stor
       /\ \A a \in Accounts \ {request.tx.from} : Overlay.acct[a] = BlockState.acct[a]
  /\ (Returned /\ request.tx.data = GetStoredBalance /\ request.tx.to = Acct.contract
        /\ ~request.hasOverrides /\ prior.kind = "none" /\ ~request.tx.hasAccessList
        /\ IsActivatedEIP(request.common, 2929)) =>
       Addresses(outcome.accessList)
         = IF BlockState.stor[Acct.contract][1] = 0 THEN {Acct.contract}
           ELSE {Acct.contract, BlockState.stor[Acct.contract][1]}

\* createAccessList for the older block returned the contract alone, while
\* the head's state has `to` in the slot
C15_Witness ==
  /\ Returned /\ request.tx.data = GetStoredBalance /\ request.block = 1
  /\ Addresses(outcome.accessList) = {Acct.contract}
  /\ chain.trie.root.stor[Acct.contract][1] = Acct.to
  /\ chain.head = Blocks[2].number

NothingWarm ==
  /\ \A i \in DOMAIN sim.accessed : sim.accessed[i] = EmptyMap
  /\ sim.reverted = EmptyMap

\* C16: under rules that activate neither EIP-2929 nor EIP-2930, initialize
\* warms nothing and leaves both exclusion sets empty, no run warms
\* anything, and every list createAccessList returns is empty, also for a
\* transaction that reads the contract's storage.
C16_PreBerlinEmpty ==
  (sim.pc # "constructed" /\ ~IsActivatedEIP(request.common, 2929)
     /\ ~IsActivatedEIP(request.common, 2930)) =>
    /\ NothingWarm
    /\ sim.accessListExclusions = <<>>
    /\ sim.addressesOnlyStorage = <<>>
    /\ Returned => outcome.accessList = <<>>

\* createAccessList returned for a storage read of the contract under
\* byzantium, after a run
C16_Witness ==
  /\ Returned /\ request.common = "byzantium"
  /\ request.tx.to = Acct.contract /\ request.tx.data = <<1, 1>>
  /\ sim.vmRuns >= 1 /\ sim.callResult.gasUsed > 0
  /\ outcome.accessList = <<>>

\* the addresses a transaction may touch without their entering the list
Exempt == {request.tx.from, request.tx.to} \cup Precompiles

OnlyExemptTouched == Touched \subseteq Exempt /\ sim.reverted.slots = {}

\* C17: createAccessList without a seed, for a transaction whose runs touch
\* only the caller, the callee (and none of its storage) and precompiles,
\* returns after one EVM run the empty list and gasUsed = intrinsic gas +
\* the run's gas; for a value transfer with empty data that is 0x5208.
C17_ExemptOnly ==
  (Returned /\ Seed = <<>> /\ OnlyExemptTouched) =>
    /\ sim.vmRuns = 1
    /\ outcome.accessList = <<>>
    /\ HexToInt(outcome.gasUsed) = IntrinsicOf(request) + sim.callResult.gasUsed
    /\ (request.tx.data = <<>> /\ request.tx.to # NoAddress) =>
         outcome.gasUsed = <<"0", "x", "5", "2", "0", "8">>

\* {from, to, value: 0xf} returned [] and 0x5208 after one run
C17_Witness ==
  /\ Returned /\ request.tx.to = Acct.to /\ request.tx.value = 15 /\ request.tx.data = <<>>
  /\ ~request.tx.hasAccessList /\ IsActivatedEIP(request.common, 2929)
  /\ sim.vmRuns = 1 /\ outcome.accessList = <<>>
  /\ outcome.gasUsed = <<"0", "x", "5", "2", "0", "8">>

\* every entry of a has an entry of b with its address and its set of keys
EntriesWithin(a, b) ==
  \A i \in DOMAIN a : \E j \in DOMAIN b :
    /\ a[i].address = b[j].address
    /\ Range(a[i].storageKeys) = Range(b[j].storageKeys)

\* C18: when the seed and the list the first run generates hold the same
\* (address, set of slots) pairs, in whatever order and with whatever
\* repetitions, createAccessList returns that list after one EVM run.
C18_SeedConfirmedInOneRun ==
  (Returned /\ EntriesWithin(Seed, sim.firstGenerated)
            /\ EntriesWithin(sim.firstGenerated, Seed)) =>
    /\ sim.vmRuns = 1 /\ sim.iterations = 0
    /\ outcome.accessList = sim.firstGenerated

\* a seed with its entries out of order and repeated was confirmed by the
\* first run
C18_Witness ==
  /\ Returned /\ sim.vmRuns = 1
  /\ Len(Seed) > Len(outcome.accessList) /\ Len(outcome.accessList) = 2
  /\ Seed[1].address # outcome.accessList[1].address
  /\ \E i \in DOMAIN Seed : Len(Seed[i].storageKeys) = 2

\* the storage that results from writing a map's slots, in order, over base
RECURSIVE Written(_, _)
Written(base, slots) ==
  IF slots = <<>> THEN base
  ELSE Written([base EXCEPT ![HexToInt(Head(slots).slot)] = HexToInt(Head(slots).value.text)],
               Tail(slots))

EmptyStorage == [k \in Slots |-> 0]

\* initialize has resolved with the overrides applied, and nothing has run yet
OverridesApplied == sim.pc = "initialized" /\ sim.hasRunCallOpts /\ sim.vmRuns = 0

\* C19: after initialize, the storage of an address overridden with `state`
\* holds exactly the provided slots, for any provided map, the empty one
\* included; the storage of an address overridden with `stateDiff` holds the
\* provided slots and, in every other slot, what the block had.
C19_StateReplacesDiffMerges ==
  OverridesApplied =>
    \A i \in DOMAIN request.overrides :
      LET o == request.overrides[i]
      IN /\ o.state.has => Overlay.stor[o.address] = Written(EmptyStorage, o.state.slots)
         /\ o.stateDiff.has =>
              Overlay.stor[o.address] = Written(BlockState.stor[o.address], o.stateDiff.slots)

\* the map of the first failing override entry, and the first slot of it
\* that #validateStorageOverride refuses
FailingLabel == IF request.overrides[FirstFailing].state.has THEN "State" ELSE "StateDiff"

FailingSlots ==
  IF request.overrides[FirstFailing].state.has
  THEN request.overrides[FirstFailing].state.slots
  ELSE request.overrides[FirstFailing].stateDiff.slots

FailingIndex ==
  LET bad == {j \in DOMAIN FailingSlots : Refused(FailingSlots[j])}
  IN CHOOSE j \in bad : \A k \in bad : j <= k

FailingSlot == FailingSlots[FailingIndex]

\* the first thing #applySimulationOverrides refuses is a slot whose key or
\* value has a bad length
BadLengthAtFirstFailing ==
  /\ FirstFailing # 0 /\ ~BothAtFirstFailing
  /\ \/ BadLength(FailingSlot.slot)
     \/ FailingSlot.value.kind = "string" /\ BadLength(FailingSlot.value.text)

HasBadLength ==
  \E i \in DOMAIN request.overrides :
    \E j \in DOMAIN (request.overrides[i].state.slots \o request.overrides[i].stateDiff.slots) :
      LET x == (request.overrides[i].state.slots \o request.overrides[i].stateDiff.slots)[j]
      IN BadLength(x.slot) \/ (x.value.kind = "string" /\ BadLength(x.value.text))

BadLengthMessage ==
  IF BadLength(FailingSlot.slot)
  THEN FailingLabel \o " override slot must be a 64 character hex string. Received "
       \o ToString(Len(FailingSlot.slot) - 2) \o " character string."
  ELSE FailingLabel \o " override data must be a 64 character hex string. Received "
       \o ToString(Len(FailingSlot.value.text) - 2) \o " character string."

\* the storage of the failing address with the slots before the refused one
\* applied and nothing more
StorageBeforeFailing ==
  LET a == request.overrides[FirstFailing].address
      base == IF request.overrides[FirstFailing].state.has /\ FailingIndex > 1
              THEN EmptyStorage ELSE BlockState.stor[a]
  IN Written(base, SubSeq(FailingSlots, 1, FailingIndex - 1))

\* C20 as stated: once initialize has run with a state or stateDiff override
\* holding a slot key or slot value that is a non-empty "0x" string of a
\* length other than 66, it has rejected with the message for that key
\* ("slot") or value ("data") giving N = length - 2, and that slot is not
\* written.
C20_BadLengthRejectedAlways ==
  (sim.pc # "constructed" /\ HasBadLength) =>
    /\ InitializeRejected
    /\ sim.pc = "rejected" => outcome.kind = "Error" /\ outcome.message = BadLengthMessage
    /\ Overlay.stor[request.overrides[FirstFailing].address] = StorageBeforeFailing

\* C20, amended: when tx.gas covers the intrinsic gas and the first thing the
\* overrides fail on is such a slot key or slot value, initialize rejects
\* with that message, the EVM is never invoked, and the storage of the
\* address holds the slots written before the refused one and not that slot.
C20_BadLengthRejected ==
  (sim.pc # "constructed" /\ BadLengthAtFirstFailing /\ request.tx.gas >= IntrinsicOf(request)) =>
    /\ InitializeRejected
    /\ sim.pc = "rejected" => outcome.kind = "Error" /\ outcome.message = BadLengthMessage
    /\ sim.vmRuns = 0
    /\ Overlay.stor[request.overrides[FirstFailing].address] = StorageBeforeFailing

\* a stateDiff whose second slot has a value of 65 hex characters was
\* refused: the first slot is written, the second keeps the block's value
C20_Witness ==
  /\ sim.pc = "rejected" /\ BadLengthAtFirstFailing /\ FailingIndex = 2
  /\ outcome.message
       = "StateDiff override data must be a 64 character hex string. Received 65 character string."
  /\ Overlay.stor[Acct.contract][1] = 9
  /\ Overlay.stor[Acct.contract][2] = BlockState.stor[Acct.contract][2]
  /\ BlockState.stor[Acct.contract][2] = 7

\* the first thing #applySimulationOverrides refuses is a slot whose value
\* is null or undefined
NoDataAtFirstFailing ==
  /\ FirstFailing # 0 /\ ~BothAtFirstFailing
  /\ FailingSlot.value.kind \in {"null", "undefined"}

HasNoData ==
  \E i \in DOMAIN request.overrides :
    \E j \in DOMAIN (request.overrides[i].state.slots \o request.overrides[i].stateDiff.slots) :
      (request.overrides[i].state.slots \o request.overrides[i].stateDiff.slots)[j].value.kind
        \in {"null", "undefined"}

NoDataMessage ==
  IF BadLength(FailingSlot.slot)
  THEN FailingLabel \o " override slot must be a 64 character hex string. Received "
       \o ToString(Len(FailingSlot.slot) - 2) \o " character string."
  ELSE FailingLabel \o " override data not valid. Received: " \o FailingSlot.value.kind

\* C21 as stated: once initialize has run with a state or stateDiff override
\* holding a slot whose value is null or undefined, it has rejected with
\* "<State|StateDiff> override data not valid. Received: <value>", or with
\* the slot error when the key of that slot has a bad length.
C21_NoDataRejectedAlways ==
  (sim.pc # "constructed" /\ HasNoData) =>
    /\ InitializeRejected
    /\ sim.pc = "rejected" => outcome.kind = "Error" /\ outcome.message = NoDataMessage

\* C21, amended: when tx.gas covers the intrinsic gas and the first slot the
\* overrides fail on has a null or undefined value, initialize rejects with
\* "<State|StateDiff> override data not valid. Received: <value>", unless the
\* key of that slot has a bad length, which is reported instead; the EVM is
\* never invoked and the slot is not written.
C21_NoDataRejected ==
  (sim.pc # "constructed" /\ NoDataAtFirstFailing /\ request.tx.gas >= IntrinsicOf(request)) =>
    /\ InitializeRejected
    /\ sim.pc = "rejected" => outcome.kind = "Error" /\ outcome.message = NoDataMessage
    /\ sim.vmRuns = 0
    /\ Overlay.stor[request.overrides[FirstFailing].address] = StorageBeforeFailing

\* a slot with a key of 62 hex characters and a null value was refused for
\* its key
C21_Witness ==
  /\ sim.pc = "rejected" /\ NoDataAtFirstFailing
  /\ FailingSlot.value.kind = "null" /\ BadLength(FailingSlot.slot)
  /\ outcome.message
       = "StateDiff override slot must be a 64 character hex string. Received 62 character string."

\* the bytes of an overriding code text: "" and "0x" are no bytes
CodeBytes(text) == IF Len(text) <= 2 THEN <<>> ELSE SubSeq(text, 3, Len(text))

\* the key/value pairs held by the scratch of the overlay's checkpoints
Scratch == UNION {sim.trie.checkpoints[i].kv : i \in DOMAIN sim.trie.checkpoints}

CodeInstalled(o) ==
  LET bytes == CodeBytes(o.code.text)
      hash == IF bytes = <<>> THEN KECCAK256_NULL ELSE Keccak(bytes)
  IN /\ Overlay.acct[o.address].codeHash = hash
     /\ <<hash, bytes>> \in Scratch
     /\ leveldb.kv = pre.db.kv

HasCodeOverride == \E i \in DOMAIN request.overrides : request.overrides[i].code.has

\* C22 as stated: once initialize has resolved with a code override, the
\* account's codeHash is KECCAK256_NULL with an empty blob stored under it
\* when the code is "" or "0x", and keccak(code) with the code stored under
\* it otherwise, and the blob is in the overlay's scratch, not in the
\* parent database.
C22_CodeInstalledAlways ==
  (sim.pc = "initialized" /\ sim.vmRuns = 0) =>
    \A i \in DOMAIN request.overrides :
      request.overrides[i].code.has => CodeInstalled(request.overrides[i])

\* C22, amended: the same, when tx.gas covers the intrinsic gas, so that
\* initialize applies the overrides.
C22_CodeInstalled ==
  OverridesApplied =>
    \A i \in DOMAIN request.overrides :
      request.overrides[i].code.has => CodeInstalled(request.overrides[i])

\* the contract's code was overridden with "0x": its codeHash, which the
\* block has as the hash of the Inspector's code, is KECCAK256_NULL
C22_Witness ==
  /\ OverridesApplied /\ HasCodeOverride
  /\ request.overrides[1].code.text = <<"0", "x">>
  /\ BlockState.acct[Acct.contract].codeHash = Keccak(InspectorCode)
  /\ Overlay.acct[Acct.contract].codeHash = KECCAK256_NULL
  /\ <<KECCAK256_NULL, <<>>>> \in Scratch
  /\ <<KECCAK256_NULL, <<>>>> \notin leveldb.kv

\* C23: every step that invokes the EVM passes it the call parameters of the
\* transaction with gasLimit = tx.gas - intrinsic gas, which is not
\* negative and value 0 when the transaction has none; and no step after
\* initialize changes the stored call parameters, so every run of
\* createAccessList gets the same ones.
C23_CallOptsFixed ==
  [][ /\ (sim'.vmRuns = sim.vmRuns + 1) =>
           /\ sim.hasRunCallOpts
           /\ sim.runCallOpts = StoredCallOpts
           /\ sim.runCallOpts.gasLimit = request.tx.gas - sim.intrinsicGas
           /\ sim.runCallOpts.gasLimit >= 0
      /\ (sim.pc # "constructed" /\ sim'.pc # "constructed") =>
           /\ sim'.runCallOpts = sim.runCallOpts
           /\ sim'.hasRunCallOpts = sim.hasRunCallOpts ]_vars

\* a createAccessList ran the EVM twice, on a transaction without a value
\* whose gas is above its intrinsic gas
C23_Witness ==
  /\ Returned /\ sim.vmRuns = 2 /\ request.tx.value = NoValue
  /\ sim.runCallOpts.value = 0
  /\ sim.runCallOpts.gasLimit = request.tx.gas - IntrinsicOf(request)
  /\ sim.runCallOpts.gasLimit > 0 /\ sim.runCallOpts.gasLimit < request.tx.gas

\* C24: from initialize on, the checkpoint initialize took stays open: the
\* overlay's checkpoint depth is at least 1, the state saved by that
\* checkpoint is the block's, and nothing the handler wrote (overrides,
\* sender debit, EVM writes) has been committed through to leveldb.
C24_CheckpointNeverCommitted ==
  sim.pc # "constructed" =>
    /\ Depth(Env) >= 1
    /\ sim.trie.checkpoints[1].root = BlockState
    /\ leveldb = pre.db

\* an eth_call has written the contract's storage and debited the sender;
\* the writes are in the overlay, above the checkpoint that holds the
\* block's state
C24_Witness ==
  /\ Finished /\ outcome.kind = "EVMResult" /\ Depth(Env) = 1
  /\ Overlay.stor[Acct.contract][1] = 5 /\ BlockState.stor[Acct.contract][1] # 5
  /\ Overlay.acct[request.tx.from].nonce = BlockState.acct[request.tx.from].nonce + 1
  /\ sim.trie.checkpoints[1].root = BlockState

\* the overlay's accounts and storage as initialize leaves them for the
\* request in hand
AfterInitialize ==
  World(Initialize([sim |-> NewSim, db |-> pre.db, thrown |-> ""], pre.chain.trie, request))

\* C25: whenever an iteration of createAccessList starts, the first or a
\* later one, the overlay's accounts and storage are the ones initialize
\* left (sender nonce bumped, sender balance debited, overrides applied):
\* nothing an earlier iteration's EVM run wrote is there.
C25_IterationsStartFromBaseline ==
  sim.pc = "cal_checkpoint" =>
    /\ Overlay = AfterInitialize
    /\ sim.hasRunCallOpts =>
         /\ Overlay.acct[request.tx.from].nonce = OverriddenSender.nonce + 1
         /\ Overlay.acct[request.tx.from].balance
              = OverriddenSender.balance - request.tx.gas * request.tx.gasPrice

\* the second iteration starts after a first one whose run stored 5 in
\* slot 1 of the contract and transferred 15: neither write is visible
C25_Witness ==
  /\ sim.pc = "cal_checkpoint" /\ sim.iterations = 1 /\ sim.vmRuns = 1
  /\ request.tx.data = <<2, 1, 5>> /\ request.tx.value = 15
  /\ sim.callResult.exceptionError = ""
  /\ Overlay.stor[Acct.contract][1] = BlockState.stor[Acct.contract][1]
  /\ Overlay.acct[Acct.contract].balance = BlockState.acct[Acct.contract].balance
  /\ Overlay.acct[request.tx.from].nonce = BlockState.acct[request.tx.from].nonce + 1

\* the runCall of the iteration that has just run raises
RunCallRaises ==
  \/ sim.initializationError # ""
  \/ ~sim.hasRunCallOpts
  \/ sim'.callResult.exceptionError # ""

\* C26: when the runCall of an iteration of createAccessList raises, for an
\* initialization error or for an exceptionError of the EVM, createAccessList
\* ends there with that error (the CallError carrying runCall's result), no
\* access list is returned, and no further iteration or run follows.
C26_RunCallErrorPassedThrough ==
  [][ /\ (sim.pc = "cal_run" /\ RunCallRaises) =>
           /\ sim'.pc = "done"
           /\ outcome'.kind \in {"CallError", "Error"}
           /\ outcome'.kind = "CallError" <=> (sim.initializationError # "" \/ sim.hasRunCallOpts)
           /\ outcome'.kind = "CallError" =>
                /\ outcome'.callResult = sim'.callResult
                /\ outcome'.callResult.exceptionError # ""
                /\ sim.initializationError # "" =>
                     outcome'.callResult.exceptionError = sim.initializationError
           /\ outcome'.accessList = <<>> /\ outcome'.gasUsed = NoOutcome.gasUsed
           /\ sim'.iterations = sim.iterations
      /\ (Finished /\ outcome.kind \in {"CallError", "Error"}) => UNCHANGED vars ]_vars

\* a createAccessList whose first run reverted has raised the CallError
C26_Witness ==
  /\ Finished /\ outcome.kind = "CallError" /\ sim.previousAccessList = Seed
  /\ Depth(Env) = 2 /\ sim.vmRuns = 1 /\ sim.iterations = 0
  /\ outcome.callResult.exceptionError = "revert" /\ outcome.accessList = <<>>

\* C28: every step by which createAccessList returns or raises leaves the
\* overlay's checkpoint depth at the depth initialize left, 1: the
\* checkpoint of the iteration has been reverted.
C28_CheckpointsReverted ==
  [][ (sim.pc \in {"cal_run", "cal_generate"} /\ sim'.pc = "done") =>
        Len(sim'.trie.checkpoints) = 1 ]_vars

\* C29: a runCall made with an initialization error on record has raised a
\* CallError whose result has gasUsed = 0, an empty returnValue, the
\* recorded error as exceptionError and programCounter = 0.
C29_InitErrorResult ==
  (Finished /\ sim.initializationError # "") =>
    /\ outcome.kind = "CallError"
    /\ outcome.callResult.hasGasUsed /\ outcome.callResult.gasUsed = 0
    /\ outcome.callResult.returnValue = NoCallResult.returnValue
    /\ outcome.callResult.exceptionError = sim.initializationError
    /\ outcome.callResult.programCounter = 0

\* the overrides name the caller and set its nonce or its balance
SenderOverridden ==
  \E i \in DOMAIN request.overrides :
    /\ request.overrides[i].address = request.tx.from
    /\ request.overrides[i].nonce.has \/ request.overrides[i].balance.has

DefaultsWarm ==
  \A a \in ({request.tx.from, request.tx.to} \ {NoAddress}) \cup Precompiles :
    IsWarmedAddress(Env, a)

C31_OutOfGasSkipsTheRest ==
  (sim.pc # "constructed" /\ request.tx.gas < IntrinsicOf(request)) =>
    /\ sim.events.before = 1
    /\ NothingWarm
    /\ sim.accessListExclusions = <<>> /\ sim.addressesOnlyStorage = <<>>
    /\ Overlay = BlockState
    /\ Sender = BlockSender
    /\ ~sim.hasRunCallOpts /\ sim.runCallOpts = NoRunCallOpts

\* initialize has resolved on a request with too little gas that overrides
\* the sender's nonce and carries an access list under EIP-2930
C31_Witness ==
  /\ sim.pc = "initialized" /\ request.tx.gas < IntrinsicOf(request)
  /\ SenderOverridden /\ request.tx.hasAccessList /\ request.tx.accessList # <<>>
  /\ IsActivatedEIP(request.common, 2930)
  /\ sim.events.before = 1 /\ Sender.nonce = BlockSender.nonce

\* how far a handler is from the end of createAccessList: the iterations
\* left, and within an iteration the steps left
StepsLeft(s) ==
  4 * (MAX_ITERATIONS - s.iterations)
    + (CASE s.pc = "constructed" -> 6
         [] s.pc \in {"initialized", "rejected"} -> 5
         [] s.pc = "cal_checkpoint" -> 3
         [] s.pc = "cal_run" -> 2
         [] s.pc = "cal_generate" -> 1
         [] OTHER -> 0)

\* C32: createAccessList terminates: every step of it brings the handler
\* closer to the end of a loop that has at most MAX_ITERATIONS = 1000
\* iterations, so the EVM is never run more than 1000 times, and the loop
\* stops without a result only after exactly 1000 runs, each of which
\* generated a list unlike the one before.
C32_Terminates ==
  [][ /\ StepsLeft(sim') < StepsLeft(sim) /\ StepsLeft(sim') >= 0
      /\ sim'.vmRuns <= MAX_ITERATIONS /\ sim'.iterations <= MAX_ITERATIONS
      /\ (sim'.pc = "done" /\ outcome'.kind = "undefined") =>
           sim'.vmRuns = MAX_ITERATIONS /\ sim'.iterations = MAX_ITERATIONS ]_vars

\* the loop has stopped after 1000 runs none of which repeated the list of
\* the run before
C32_Witness ==
  /\ Finished /\ sim.vmRuns = MAX_ITERATIONS /\ outcome.kind = "undefined"
  /\ Len(sim.accessList) >= MAX_ITERATIONS

\* the positions of the run's delivered events that are of a kind
Delivered(kind) == {i \in DOMAIN sim.delivered : sim.delivered[i].kind = kind}

\* C33: of the events delivered for an EVM run, the step events are in the
\* order of the EVM's steps (the i-th of them is for step i), a console.log
\* event comes immediately before the step event of its own step, `after`
\* is the last event and the only `after`, and every event carries the
\* handler's one context object.
C33_DeliveryOrder ==
  sim.vmRuns > 0 =>
    /\ \A i \in Delivered("step") :
         sim.delivered[i].step = Cardinality({j \in Delivered("step") : j <= i})
    /\ Cardinality(Delivered("step")) = sim.callResult.programCounter
    /\ \A i \in Delivered("console.log") :
         /\ i + 1 \in Delivered("step")
         /\ sim.delivered[i + 1].step = sim.delivered[i].step
    /\ Delivered("after") = {Len(sim.delivered)}
    /\ \A i \in DOMAIN sim.delivered : sim.delivered[i].context = sim.transactionContext

\* a run that logged to the console in its first step and reverted in its
\* second delivered console.log, step, step, after
C33_Witness ==
  /\ sim.vmRuns = 1 /\ Len(sim.delivered) = 4
  /\ sim.delivered[1].kind = "console.log" /\ sim.delivered[2].kind = "step"
  /\ sim.delivered[3].kind = "step" /\ sim.delivered[4].kind = "after"
  /\ sim.callResult.exceptionError = "revert"

AloneRunCall(req) ==
  LET e == Initialize([sim |-> NewSim, db |-> InitialDb, thrown |-> ""], InitialChain.trie, req)
      r == RunCall([e EXCEPT !.thrown = ""])
  IN IF r.thrown = ""
     THEN [NoOutcome EXCEPT !.kind = "EVMResult", !.callResult = r.callResult]
     ELSE Thrown(r)

\* ... and by initialize and createAccessList
RECURSIVE AloneLoop(_, _, _)
AloneLoop(e, previousAccessList, iterations) ==
  LET r == RunCall(Checkpoint(e))
      accessList == GenerateAccessList(r.e, e.sim.accessListExclusions, e.sim.addressesOnlyStorage)
      e1 == CalRevert(r.e)
  IN IF r.thrown # "" THEN Thrown(r)
     ELSE IF CalIsSame(previousAccessList, accessList)
     THEN CalResult([e1.sim EXCEPT !.callResult = r.callResult], accessList)
     ELSE IF CalNextIteration(iterations) < MAX_ITERATIONS
     THEN AloneLoop(e1, accessList, CalNextIteration(iterations))
     ELSE [NoOutcome EXCEPT !.kind = "undefined"]

AloneCreateAccessList(req) ==
  LET e == Initialize([sim |-> NewSim, db |-> InitialDb, thrown |-> ""], InitialChain.trie, req)
  IN AloneLoop([e EXCEPT !.thrown = ""], req.tx.accessList, 0)

AsAlone(h) ==
  h.sim.pc = "done" =>
    /\ h.outcome \in {AloneRunCall(h.request), AloneCreateAccessList(h.request)}
    /\ h.outcome.kind = "EVMResult" => h.outcome = AloneRunCall(h.request)
    /\ h.outcome.kind = "result" => h.outcome = AloneCreateAccessList(h.request)

\* C35: when two handlers over the same blockchain and block run with their
\* steps interleaved at the awaits, neither ever writes the leveldb or the
\* chain's trie they share, and each one's result (the EVM result or error,
\* or the access list and gasUsed) is the one it produces when it runs
\* alone.
C35_NoInterference ==
  /\ leveldb = pre.db /\ chain = pre.chain
  /\ AsAlone([request |-> request, sim |-> sim, outcome |-> outcome])
  /\ AsAlone(peer)

\* a handler has run an eth_call that wrote the contract's storage, from
\* start to end, while the other was suspended in the second iteration of
\* its createAccessList, after its own first run had written the same slot
C35_Witness ==
  /\ Finished /\ outcome.kind = "EVMResult" /\ request.tx.data = <<2, 1, 5>>
  /\ peer.sim.pc = "cal_run" /\ peer.sim.iterations = 1
  /\ peer.request.tx.data = <<5, Acct.to, 1>>
  /\ Overlay.stor[Acct.contract][1] = 5
  /\ Len(peer.sim.trie.checkpoints) = 2

\* C36: a copy of a trie leaves the trie's root and checkpoint stack as
\* they were and has the trie's root; it has the trie's checkpoint stack
\* when includeCheckpoints is true and the trie is in a checkpoint, and an
\* empty one otherwise, so always for copy(false).
C36_CopyFrame ==
  [][ (request' # request \/ sim' # sim) =>
        /\ chain' = chain
        /\ sim'.trie.root = chain.trie.root
        /\ sim'.trie.checkpoints =
             IF request'.includeCheckpoints /\ Len(chain.trie.checkpoints) > 0
             THEN chain.trie.checkpoints ELSE <<>>
        /\ ~request'.includeCheckpoints => sim'.trie.checkpoints = <<>> ]_vars

\* copy(false) of a trie in two checkpoints, whose root is not the one it
\* had at its first checkpoint: the copy has that root and no checkpoint
C36_Witness ==
  /\ request = [copied |-> TRUE, includeCheckpoints |-> FALSE]
  /\ Len(chain.trie.checkpoints) = 2 /\ chain.trie.checkpoints[1].root # chain.trie.root
  /\ sim.trie.root = chain.trie.root /\ sim.trie.checkpoints = <<>>

\* the overrides are refused by an initialize that reaches them
RefusedOverrides == FirstFailing # 0 /\ request.tx.gas >= IntrinsicOf(request)

\* C37: when initialize has rejected for an invalid override (both state and
\* stateDiff, or a malformed slot or value), the EVM is never invoked by that
\* handler, the sender's nonce and balance are never debited, and a runCall,
\* called directly or by createAccessList, raises "Unknown error when
\* simulating transaction.".
C37_RunCallAfterRejection ==
  (sim.pc # "constructed" /\ RefusedOverrides) =>
    /\ sim.vmRuns = 0 /\ sim.events.after = 0
    /\ Sender.nonce \in {BlockSender.nonce, OverriddenSender.nonce}
    /\ Sender.balance \in {BlockSender.balance, OverriddenSender.balance}
    /\ Finished => /\ outcome.kind = "Error"
                   /\ outcome.message = "Unknown error when simulating transaction."
                   /\ outcome.callResult = NoCallResult

\* runCall was called after a state override with a null value was refused,
\* for a transaction whose gas would have cost the sender 90000
C37_Witness ==
  /\ Finished /\ NoDataAtFirstFailing /\ Depth(Env) = 1
  /\ request.tx.gasPrice = 1 /\ request.tx.gas >= IntrinsicOf(request)
  /\ outcome.kind = "Error" /\ outcome.message = "Unknown error when simulating transaction."
  /\ Sender.balance = BlockSender.balance /\ Sender.nonce = BlockSender.nonce

\* the slots of a state override that come before the first refused one
RECURSIVE ValidPrefix(_)
ValidPrefix(slots) ==
  IF slots = <<>> \/ Refused(Head(slots)) THEN <<>>
  ELSE <<Head(slots)>> \o ValidPrefix(Tail(slots))

\* the storage of an address cleared once and then written with the slots
SetOnce(slots) ==
  [k \in Slots |->
     LET w == {j \in DOMAIN slots : HexToInt(slots[j].slot) = k}
     IN IF w = {} THEN 0
        ELSE HexToInt(slots[CHOOSE j \in w : \A i \in w : i <= j].value.text)]

\* entry i of the overrides is a state override that initialize reaches, and
\* the only storage override of its address
StateOverrideReached(i) ==
  /\ request.tx.gas >= IntrinsicOf(request)
  /\ request.overrides[i].state.has /\ ~request.overrides[i].stateDiff.has
  /\ FirstFailing = 0 \/ FirstFailing >= i
  /\ \A j \in DOMAIN request.overrides \ {i} :
       request.overrides[j].address = request.overrides[i].address =>
         ~(request.overrides[j].state.has \/ request.overrides[j].stateDiff.has)

\* C38: after an initialize that reaches a state override, and before any
\* run, the storage of its address is as in the block when the first slot
\* given was refused (or no slot was given): neither cleared nor written.
\* Otherwise it is the storage cleared once and then written with the slots
\* that come before the first refused one, so no slot written is lost to a
\* second clearing.
C38_ClearedAfterFirstValidSlot ==
  (sim.pc \in {"initialized", "rejected"} /\ sim.vmRuns = 0) =>
    \A i \in DOMAIN request.overrides :
      StateOverrideReached(i) =>
        LET o == request.overrides[i]
            written == ValidPrefix(o.state.slots)
        IN Overlay.stor[o.address] =
             IF written = <<>> THEN BlockState.stor[o.address] ELSE SetOnce(written)

\* initialize has rejected a state override whose first slot carries a
\* four character value; the contract's storage, not empty in the block, is
\* as in the block
C38_Witness ==
  /\ sim.pc = "rejected" /\ request.hasOverrides /\ StateOverrideReached(1)
  /\ request.overrides[1].state.slots = <<ShortData>>
  /\ Overlay.stor[Acct.contract] = BlockState.stor[Acct.contract]
  /\ \E k \in Slots : BlockState.stor[Acct.contract][k] # 0

\* the value as byteLength bytes: zero bytes before it when it is shorter,
\* its first byteLength bytes when it is longer
FixedBytes(value, byteLength) ==
  IF Len(value) < byteLength THEN [i \in 1..(byteLength - Len(value)) |-> 0] \o value
  ELSE SubSeq(value, 1, byteLength)

\* C39: for a value that is not null and a byte length n >= 1,
\* Data.toBuffer(value, n) is n bytes: the value after zero bytes when it is
\* shorter than n, the value when it has n bytes, its first n bytes when it
\* is longer; and Data.toString(value, n) is "0x" and then the hex of those
\* n bytes.
C39_FixedByteLength ==
  /\ outcome.kind = "toBuffer" =>
       /\ Len(outcome.buffer) = request.byteLength
       /\ outcome.buffer = FixedBytes(request.value, request.byteLength)
  /\ outcome.kind = "toString" =>
       /\ outcome.string = <<"0", "x">> \o ToHexString(FixedBytes(request.value, request.byteLength))
       /\ outcome.string = <<"0", "x">> \o
            ToHexString(DataToBuffer(DataFrom(request.value, request.byteLength), Undefined, request.held))

\* one byte asked as three, from memory that held 0xff: two zero bytes and
\* the byte
C39_Witness ==
  /\ outcome.kind = "toBuffer" /\ request.value = <<171>> /\ request.byteLength = 3
  /\ request.held = 255 /\ outcome.buffer = <<0, 0, 171>>

====
